---------------------------- MODULE Spec2Model ----------------------------
(***************************************************************************)
(* A model of the avr-absurd debug bridge: the GDB remote-serial-protocol  *)
(* packet codec (rspserver.py), the RSP server's packet loop and request   *)
(* handlers (rspserver.py) and the OCD debugger layer (debugger.py) over   *)
(* the target's OCD register window.                                       *)
(*                                                                         *)
(* Bytes are integers 0..255, byte strings and Python strings are          *)
(* sequences of them.                                                      *)
(***************************************************************************)
EXTENDS Integers, Sequences, FiniteSets, TLC

VARIABLES
    wire,           \* bytes the client has sent that the server has not yet received
    oob,            \* for each byte of wire, whether the client sent it outside any frame as a break
    sent,           \* what the server sent since the last recv of the packet loop or since handle_packet began, one element per sendall
    menu,           \* the byte strings the client of this session may send
    pendingpacket,  \* GdbPacketParser.pendingpacket
    decoded,        \* the packets returned by process_bytes: by all calls (codec), by the last recv (server)
    ncalls,         \* number of process_bytes calls made, counted up to MaxCallsCounted (codec)
    frames,         \* the payloads the client framed into the stream (codec)
    tampered,       \* whether a checksum character of the framed packet was changed in transit (codec)
    pc,             \* where the process is: "attach", "halt", "set_traps", "accept" (the prologue of serve), "recv", "dispatch", "c_check", "c_recv", "hang", "finally", "main" (the except clauses of main), "done"
    packets,        \* the packets of the current loop iteration not yet dispatched
    req,            \* the packet handle_packet was last called with, <<>> after a recv
    was,            \* RspServer.bps as it was when handle_packet was last called
    bps,            \* RspServer.bps, the breakpoint slot table
    mem,            \* the 64 bytes of the target's OCD register window
    halted,         \* bit 0 of the CSR ASI_OCD_STATUS
    calls,          \* the OcdRev1 memory methods called by the last step of the server
    updi,           \* the UPDI instructions issued by the last step of the server
    intr,           \* whether the last recv, of the packet loop or of the continue loop, ran the interrupt sequence
    lastbreak,      \* whether the data of that recv held a break byte sent outside any frame
    events,         \* the UPDI instructions and the sendall calls of the last step of the server, in the order made
    link,           \* how many more UPDI instructions the serial link carries before one fails, -1 for a sound link
    eof,            \* whether the client has closed its end of the connection
    res,            \* the serial port, the client socket and the listening socket: "none", "open" or "closed"
    exc,            \* the exception that left serve, "" for none
    exitcode,       \* the exit code of the process, -1 while it runs
    uart,           \* the serial port as the driver sees it: the calls made on it, its input buffer, and what the target will answer
    ret             \* the method called last on the driver or the debugger in a session of direct calls, with its arguments and what it returned or raised

vars == <<wire, oob, sent, menu, pendingpacket, decoded, ncalls, frames, tampered,
          pc, packets, req, was, bps, mem, halted, calls, updi, intr, lastbreak,
          events, link, eof, res, exc, exitcode, uart, ret>>

callVars == <<uart, ret>>

codecVars == <<pendingpacket, decoded, ncalls, frames, tampered>>
serverVars == <<pc, packets, req, was, bps, intr, lastbreak, res, exc, exitcode>>
targetVars == <<mem, halted, calls, updi, events, link>>

-----------------------------------------------------------------------------
(* Bytes and strings *)

Chars == <<" ","!","\"","#","$","%","&","'","(",")","*","+",",","-",".","/",
           "0","1","2","3","4","5","6","7","8","9",":",";","<","=",">","?",
           "@","A","B","C","D","E","F","G","H","I","J","K","L","M","N","O",
           "P","Q","R","S","T","U","V","W","X","Y","Z","[","\\","]","^","_",
           "grave","a","b","c","d","e","f","g","h","i","j","k","l","m","n","o",
           "p","q","r","s","t","u","v","w","x","y","z","{","|","}","~">>

\* The ASCII code of a printable character.
Ord(c) == 31 + CHOOSE i \in 1..Len(Chars) : Chars[i] = c

\* The byte string of a tuple of printable characters.
Str(t) == [i \in 1..Len(t) |-> Ord(t[i])]

Min(a, b) == IF a < b THEN a ELSE b

RECURSIVE Sum(_)
Sum(s) == IF s = <<>> THEN 0 ELSE Head(s) + Sum(Tail(s))

RECURSIVE Concat(_)
Concat(ss) == IF ss = <<>> THEN <<>> ELSE Head(ss) \o Concat(Tail(ss))

Contains(s, b) == \E i \in 1..Len(s) : s[i] = b

\* Python's s[start:], with start >= 0.
From(s, start) == SubSeq(s, start + 1, Len(s))

\* Python's s.startswith(prefix).
StartsWith(s, prefix) ==
    /\ Len(s) >= Len(prefix)
    /\ SubSeq(s, 1, Len(prefix)) = prefix

\* Python's s.split(sep) for a one-byte separator.
RECURSIVE Split(_, _)
Split(s, sep) ==
    IF ~Contains(s, sep) THEN <<s>>
    ELSE LET i == CHOOSE k \in 1..Len(s) : s[k] = sep /\ \A j \in 1..(k - 1) : s[j] # sep
         IN  <<SubSeq(s, 1, i - 1)>> \o Split(SubSeq(s, i + 1, Len(s)), sep)

\* Python's s.split(sep, 1) for a one-byte separator that occurs in s.
Split1(s, sep) ==
    LET i == CHOOSE k \in 1..Len(s) : s[k] = sep /\ \A j \in 1..(k - 1) : s[j] # sep
    IN  <<SubSeq(s, 1, i - 1), SubSeq(s, i + 1, Len(s))>>

\* Python's s.replace(old, new) for a one-byte old.
RECURSIVE Replace(_, _, _)
Replace(s, old, new) ==
    IF s = <<>> THEN <<>>
    ELSE (IF Head(s) = old THEN new ELSE <<Head(s)>>) \o Replace(Tail(s), old, new)

\* Bitwise exclusive or with 0x20 of a byte.
Xor20(b) == IF (b \div 32) % 2 = 1 THEN b - 32 ELSE b + 32

DOLLAR == Ord("$")
HASH == Ord("#")
RBRACE == Ord("}")
STAR == Ord("*")
PLUS == Ord("+")
MINUS == Ord("-")
COMMA == Ord(",")
COLON == Ord(":")
UNDERSCORE == Ord("_")
ETX == 3

HexDigits == Str(<<"0","1","2","3","4","5","6","7","8","9","a","b","c","d","e","f">>)
UpperHexDigits == Str(<<"A","B","C","D","E","F">>)

\* The value of a hexadecimal digit in either case, -1 for any other byte.
HexVal(b) ==
    IF \E i \in 1..16 : HexDigits[i] = b
    THEN (CHOOSE i \in 1..16 : HexDigits[i] = b) - 1
    ELSE IF \E i \in 1..6 : UpperHexDigits[i] = b
    THEN (CHOOSE i \in 1..6 : UpperHexDigits[i] = b) + 9
    ELSE -1

\* The characters int() strips from both ends of an ASCII string.
Whitespace == {9, 10, 11, 12, 13, 32}

RECURSIVE LStrip(_)
LStrip(s) == IF s # <<>> /\ Head(s) \in Whitespace THEN LStrip(Tail(s)) ELSE s

RECURSIVE RStrip(_)
RStrip(s) ==
    IF s # <<>> /\ s[Len(s)] \in Whitespace THEN RStrip(SubSeq(s, 1, Len(s) - 1)) ELSE s

\* The digits of a base-16 literal, underscores allowed singly between digits
\* (and right after a 0x prefix).
RECURSIVE DigitsValue(_, _)
DigitsValue(s, acc) ==
    IF s = <<>> THEN acc
    ELSE IF Head(s) = UNDERSCORE THEN DigitsValue(Tail(s), acc)
    ELSE DigitsValue(Tail(s), 16 * acc + HexVal(Head(s)))

DigitsOk(s, afterPrefix) ==
    /\ s # <<>>
    /\ \A i \in 1..Len(s) : s[i] = UNDERSCORE \/ HexVal(s[i]) >= 0
    /\ s[Len(s)] # UNDERSCORE
    /\ afterPrefix \/ s[1] # UNDERSCORE
    /\ \A i \in 1..(Len(s) - 1) : ~(s[i] = UNDERSCORE /\ s[i + 1] = UNDERSCORE)

\* Python's int(s, 16) of an ASCII string: [ok |-> FALSE] stands for ValueError.
\* The digits d, after an optional 0x prefix, of a literal with or without a minus sign.
IntDigits(d, afterPrefix, negative) ==
    IF DigitsOk(d, afterPrefix)
    THEN [ok |-> TRUE, val |-> IF negative THEN 0 - DigitsValue(d, 0) ELSE DigitsValue(d, 0)]
    ELSE [ok |-> FALSE, val |-> 0]

\* The literal u after its sign.
IntUnsigned(u, negative) ==
    IF Len(u) >= 2 /\ u[1] = Ord("0") /\ u[2] \in {Ord("x"), Ord("X")}
    THEN IntDigits(From(u, 2), TRUE, negative)
    ELSE IntDigits(u, FALSE, negative)

\* The literal t, stripped of whitespace.
IntStripped(t) ==
    IF t # <<>> /\ t[1] \in {PLUS, MINUS}
    THEN IntUnsigned(Tail(t), t[1] = MINUS)
    ELSE IntUnsigned(t, FALSE)

IntBase16(s) == IntStripped(RStrip(LStrip(s)))

RECURSIVE HexOfNat(_)
HexOfNat(n) == IF n < 16 THEN <<HexDigits[n + 1]>> ELSE HexOfNat(n \div 16) \o <<HexDigits[(n % 16) + 1]>>

\* Python's f"{n:02x}": sign, then lowercase digits, zero padded to two characters in all.
Fmt02x(n) ==
    IF n >= 0
    THEN (IF n < 16 THEN <<Ord("0")>> ELSE <<>>) \o HexOfNat(n)
    ELSE <<MINUS>> \o HexOfNat(0 - n)

\* Python's bytes.hex().
RECURSIVE BytesHex(_)
BytesHex(bs) == IF bs = <<>> THEN <<>> ELSE Fmt02x(Head(bs)) \o BytesHex(Tail(bs))

-----------------------------------------------------------------------------
(* The packet codec *)

\* Bytes of the checksum field that survive decode(encoding="ascii", errors="ignore").
RECURSIVE AsciiIgnore(_)
AsciiIgnore(s) ==
    IF s = <<>> THEN <<>>
    ELSE (IF Head(s) < 128 THEN <<Head(s)>> ELSE <<>>) \o AsciiIgnore(Tail(s))

verify_checksum(payload, checksum) ==
    LET calcdcs == Sum(payload) % 256
        recvdcs == IntBase16(AsciiIgnore(SubSeq(checksum, 1, Min(2, Len(checksum)))))
    IN  recvdcs.ok /\ calcdcs = recvdcs.val

RECURSIVE UnescapeRuns(_)
UnescapeRuns(runs) ==
    IF runs = <<>> THEN <<>>
    ELSE LET run == Head(runs)
         IN  (IF Len(run) > 0 THEN <<Xor20(run[1])>> \o Tail(run) ELSE <<>>)
             \o UnescapeRuns(Tail(runs))

\* unescape without the exclusive or: the byte after '}' is kept as it is.
unescape_noxor(data) ==
    LET parts == Split(data, RBRACE)
    IN  parts[1] \o Concat(Tail(parts))

unescape(data) ==
    LET parts == Split(data, RBRACE)
    IN  parts[1] \o UnescapeRuns(Tail(parts))

\* b'#' in cand[:-2]
HashBeforeTail(cand) == \E i \in 1..(Len(cand) - 2) : cand[i] = HASH

RECURSIVE SelectComplete(_)
SelectComplete(cands) ==
    IF cands = <<>> THEN <<>>
    ELSE (IF HashBeforeTail(Head(cands)) THEN <<Split1(Head(cands), HASH)>> ELSE <<>>)
         \o SelectComplete(Tail(cands))

RECURSIVE SelectValid(_)
SelectValid(pairs) ==
    IF pairs = <<>> THEN <<>>
    ELSE LET payload == Head(pairs)[1]
             checksum == Head(pairs)[2]
             up == unescape(payload)
         IN  (IF (\A i \in 1..Len(payload) : payload[i] < 128) /\ verify_checksum(up, checksum)
              THEN <<up>> ELSE <<>>)
             \o SelectValid(Tail(pairs))

\* process_bytes that forgets the partial packet carried over from the last call.
process_bytes_nocarry(pending, data) ==
    IF data = <<>> THEN [out |-> <<>>, pending |-> pending]
    ELSE LET candidates == Split(data, DOLLAR)
             last == candidates[Len(candidates)]
         IN  [out |-> SelectValid(SelectComplete(candidates)),
              pending |-> IF HashBeforeTail(last) THEN <<>> ELSE last]

\* GdbPacketParser.process_bytes on a parser whose pendingpacket is pending:
\* the packets returned and the new pendingpacket.
process_bytes(pending, data) ==
    IF data = <<>> THEN [out |-> <<>>, pending |-> pending]
    ELSE LET split == Split(data, DOLLAR)
             candidates == <<pending \o split[1]>> \o Tail(split)
             last == candidates[Len(candidates)]
             completepackets == SelectComplete(candidates)
         IN  [out |-> SelectValid(completepackets),
              pending |-> IF HashBeforeTail(last) THEN <<>> ELSE last]

\* The escaping of RspServer.send_packet.
escape(data) ==
    Replace(Replace(Replace(Replace(data,
        RBRACE, <<RBRACE, 93>>), HASH, <<RBRACE, 3>>), DOLLAR, <<RBRACE, 4>>), STAR, <<RBRACE, 10>>)

\* The bytes RspServer.send_packet hands to sendall.
send_packet(data) ==
    LET checksum == Fmt02x(Sum(data) % 256)
    IN  <<DOLLAR>> \o escape(data) \o <<HASH>> \o checksum


-----------------------------------------------------------------------------
(* Bounds and input domains of the codec specifications *)

\* Longest total payload, in bytes, of the packets of one stream.
MaxPayloadBytes == 2
\* Most packets framed into one stream.
MaxFrames == 2
\* The process_bytes calls of a stream are counted up to this number.
MaxCallsCounted == 3

\* Payload bytes: the four bytes send_packet escapes and an ordinary one.
PayloadBytes == {DOLLAR, HASH, RBRACE, STAR, Ord("a")}

\* The bytes a checksum character may be changed to in transit.
TamperBytes ==
    {HexDigits[i] : i \in 1..16} \cup {UpperHexDigits[i] : i \in 1..6}
    \cup {Ord(" "), PLUS, MINUS, UNDERSCORE, Ord("g"), Ord("x"), DOLLAR, HASH, RBRACE,
          0, ETX, 10, 128, 255}

BoundedSeqs(S, n) == UNION {[1..k -> S] : k \in 0..n}

\* s cut into Len(cuts) + 1 consecutive pieces at the (non-decreasing) offsets cuts.
CutAt(s, cuts) ==
    LET k == Len(cuts) + 1
        lo(i) == IF i = 1 THEN 0 ELSE cuts[i - 1]
        hi(i) == IF i = k THEN Len(s) ELSE cuts[i]
    IN  [i \in 1..k |-> SubSeq(s, lo(i) + 1, hi(i))]

\* Every list of 1..MaxFrames payloads of at most MaxPayloadBytes bytes in all.
FrameLists ==
    {CutAt(s, cuts) :
        <<s, cuts>> \in {<<s, c>> \in
            BoundedSeqs(PayloadBytes, MaxPayloadBytes) \X BoundedSeqs(0..MaxPayloadBytes, MaxFrames - 1) :
                /\ \A i \in 1..Len(c) : c[i] <= Len(s)
                /\ \A i \in 1..(Len(c) - 1) : c[i] <= c[i + 1]}}

qSupported == Str(<<"q","S","u","p","p","o","r","t","e","d">>)

\* The byte stream of the packets fs, each framed by send_packet.
RECURSIVE FramedStream(_)
FramedStream(fs) == IF fs = <<>> THEN <<>> ELSE send_packet(Head(fs)) \o FramedStream(Tail(fs))

\* Values of the variables a specification does not use.
IdleServer ==
    /\ pc = "recv"
    /\ packets = <<>>
    /\ req = <<>>
    /\ was = <<-1, -1>>
    /\ bps = <<-1, -1>>
    /\ intr = FALSE
    /\ lastbreak = FALSE
    /\ sent = <<>>
    /\ menu = {}
    /\ oob = <<>>
    /\ eof = FALSE
    /\ res = [uart |-> "none", client |-> "none", socket |-> "none"]
    /\ exc = ""
    /\ exitcode = -1

\* No direct call is made and the serial traffic is not looked at.
IdleCalls ==
    /\ uart = [log |-> <<>>, buf |-> <<>>, script |-> <<>>]
    /\ ret = [method |-> "", args |-> <<>>, val |-> <<>>, raised |-> ""]

IdleTarget ==
    /\ IdleCalls
    /\ mem = <<>>
    /\ halted = TRUE
    /\ calls = <<>>
    /\ updi = <<>>
    /\ events = <<>>
    /\ link = -1

\* A fresh GdbPacketParser and a stream of well-formed frames waiting to be read.
InitCodec ==
    /\ frames \in FrameLists \cup {<<qSupported>>}
    /\ tampered = FALSE
    /\ wire = FramedStream(frames)
    /\ pendingpacket = <<>>
    /\ decoded = <<>>
    /\ ncalls = 0
    /\ IdleServer
    /\ IdleTarget

\* A fresh GdbPacketParser and one frame in which one of the two checksum
\* characters has been changed to another byte.
InitTamper ==
    /\ frames \in {<<p>> : p \in BoundedSeqs(PayloadBytes, MaxPayloadBytes) \cup {Str(<<"?">>)}}
    /\ tampered = TRUE
    /\ \E k \in 0..1, b \in TamperBytes :
          LET frame == send_packet(frames[1])
              at == Len(frame) - k
          IN  /\ frame[at] # b
              /\ wire = [frame EXCEPT ![at] = b]
    /\ pendingpacket = <<>>
    /\ decoded = <<>>
    /\ ncalls = 0
    /\ IdleServer
    /\ IdleTarget

\* One call of GdbPacketParser.process_bytes on the next n bytes of the stream.
Feed ==
    /\ wire # <<>>
    /\ \E n \in 1..Len(wire) :
          LET r == process_bytes(pendingpacket, SubSeq(wire, 1, n))
          IN  /\ wire' = From(wire, n)
              /\ pendingpacket' = r.pending
              /\ decoded' = decoded \o r.out
              /\ ncalls' = Min(ncalls + 1, MaxCallsCounted)
    /\ UNCHANGED <<oob, sent, menu, frames, tampered, eof, serverVars, targetVars>>
    /\ UNCHANGED callVars

NextCodec == Feed

SpecCodec == InitCodec /\ [][NextCodec]_vars

SpecTamper == InitTamper /\ [][NextCodec]_vars

-----------------------------------------------------------------------------
(* The codec's claims *)

\* C1: a payload of bytes below 0x80 framed by send_packet and fed in one call
\* to a fresh parser comes back as the one-element list of that payload.
C1_RoundTrip ==
    (~tampered /\ Len(frames) = 1 /\ ncalls = 1 /\ wire = <<>>) => decoded = <<frames[1]>>

\* A payload holding an escaped byte has been framed, fed in one call and returned.
C1_Witness ==
    /\ ~tampered /\ Len(frames) = 1 /\ ncalls = 1 /\ wire = <<>>
    /\ Contains(frames[1], HASH) /\ Contains(frames[1], RBRACE)
    /\ decoded = frames

\* C2: however a stream of well-formed frames is cut into chunks, the packets
\* returned by the successive calls are those one call on the whole stream returns.
C2_ChunkIndependent ==
    (~tampered /\ wire = <<>>) => decoded = process_bytes(<<>>, FramedStream(frames)).out

\* "$qSupported#37" has been fed in several chunks and decoded once.
C2_Witness ==
    /\ frames = <<qSupported>> /\ ncalls >= 2 /\ wire = <<>>
    /\ decoded = <<qSupported>>

\* Two frames fed in at least three chunks.
C2_WitnessTwo ==
    /\ ~tampered /\ Len(frames) = 2 /\ ncalls >= 3 /\ wire = <<>>
    /\ decoded = frames

\* C3: a frame with a changed checksum character is never returned by process_bytes.
C3_TamperedDropped ==
    tampered => \A i \in 1..Len(decoded) : decoded[i] # frames[1]

-----------------------------------------------------------------------------
(* The target: the OCD register window and the UPDI instructions (debugger.py, *)
(* updirev3.py)                                                                *)

OCD == 3968
OCD_BP0A == OCD + 0
OCD_BP0AT == OCD + 2
OCD_BP1A == OCD + 4
OCD_BP1AT == OCD + 6
OCD_TRAPEN == OCD + 8
OCD_TRAPENL == OCD + 8
OCD_TRAPENH == OCD + 9
OCD_CAUSE == OCD + 12
OCD_PC == OCD + 20
OCD_SP == OCD + 24
OCD_SREG == OCD + 28
OCD_R0 == OCD + 32

\* The 64 bytes dump_ocd reads.
OcdWindow == OCD..(OCD + 63)

UPDI_CTRLA == 2
UPDI_CTRLB == 3
UPDI_CTRLB_UPDIDIS == 4
ASI_OCD_CTRLA == 4
ASI_OCD_STATUS == 5
ASI_RESET_REQ == 8
ASI_SYS_STATUS == 11

UPDI_CTRLA_GTVAL_2CYCLES == 6
ASI_OCD_STOP == 1
ASI_OCD_STOPPED == 1
ASI_OCD_RUN == 2
ASI_RSTREQ_RESET == 89
ASI_RSTREQ_RUN == 0
ASI_SYS_SYSRST == 32

Traps == [UNKNOWN1 |-> 1, HWBP |-> 2, STEP |-> 4, BP0 |-> 256, BP1 |-> 512,
          EXTBRK |-> 4096, SWBP |-> 8192, JMP |-> 16384, INT |-> 32768]

WIDTH_BYTE == 0
WIDTH_WORD == 1

\* Python's a & b, a | b and a & ~b on non-negative integers.
RECURSIVE BitAnd(_, _)
BitAnd(a, b) ==
    IF a = 0 \/ b = 0 THEN 0
    ELSE (a % 2) * (b % 2) + 2 * BitAnd(a \div 2, b \div 2)

BitOr(a, b) == a + b - BitAnd(a, b)

BitAndNot(a, b) == a - BitAnd(a, b)

\* The state the handlers act on, threaded through the operators below:
\* mem, halted: the target; bps: the slot table; updi, calls: the instructions
\* and methods logged; out: the sendall calls; events: instructions and sendall
\* calls in the order made; fuel: the instructions the link still carries;
\* raised: the exception that is propagating ("" for none), under which every
\* later call is skipped.
Machine(bps_, mem_, halted_) ==
    [bps |-> bps_, mem |-> mem_, halted |-> halted_, fuel |-> link,
     updi |-> <<>>, calls |-> <<>>, out |-> <<>>, events |-> <<>>, raised |-> ""]

Raise(t, e) == [t EXCEPT !.raised = e]

\* One UPDI instruction on the wire.  On a link that carries no more
\* instructions the echo is not received: UpdiRev3.command returns failure and
\* the instruction method raises UpdiException; the target is left as it was.
command(t, op, a, b, c) ==
    [t EXCEPT !.updi = Append(@, <<op, a, b, c>>),
              !.events = Append(@, <<op, a, b, c>>),
              !.fuel = IF @ > 0 THEN @ - 1 ELSE @,
              !.raised = IF t.fuel = 0 THEN "UpdiException" ELSE @]

\* mem holds the 64 bytes of the register window, mem[1] the byte at OCD.
\* Memory outside the window is not written by the model and reads as the low
\* byte of its address.
Peek(mem_, a) == IF a \in OcdWindow THEN mem_[a - OCD + 1] ELSE a % 256

Poke(mem_, a, v) == IF a \in OcdWindow THEN [mem_ EXCEPT ![a - OCD + 1] = v] ELSE mem_

PeekBurst(mem_, a, n) == [i \in 1..n |-> Peek(mem_, a + i - 1)]

\* data[i] goes to a + i - 1.
PokeBurst(mem_, a, data) ==
    [k \in DOMAIN mem_ |->
        LET i == (OCD + k - 1) - a + 1
        IN  IF 1 <= i /\ i <= Len(data) THEN data[i] ELSE mem_[k]]

\* ldcs: the value read is t.val.
load_csr(t, addr) ==
    IF t.raised # "" THEN [t |-> t, val |-> 0]
    ELSE IF ~(0 <= addr /\ addr <= 15) THEN [t |-> Raise(t, "AssertionError"), val |-> 0]
    ELSE [t |-> command(t, "ldcs", addr, 0, 0),
          val |-> IF addr = ASI_OCD_STATUS /\ t.halted THEN ASI_OCD_STOPPED ELSE 0]

\* The program of the target is a jump to itself: an instruction executed
\* under the STEP trap leaves the PC register where it is.  After a write of
\* the PC register the next cycle is the empty one that set_pc describes: the
\* instruction at the new address is not executed and the register, which
\* holds the address of the next word to fetch, moves on by one word.
PcWritten(t) ==
    \E i \in 1..Len(t.updi) :
        /\ t.updi[i][1] = "sts" /\ t.updi[i][2] = OCD_PC
        /\ \A j \in (i + 1)..Len(t.updi) : t.updi[j][1] # "stcs"

Stepped(t) ==
    LET next == IF PcWritten(t)
                THEN (Peek(t.mem, OCD_PC) + 256 * Peek(t.mem, OCD_PC + 1) + 1) % 65536
                ELSE Peek(t.mem, OCD_PC) + 256 * Peek(t.mem, OCD_PC + 1)
    IN  Poke(Poke(Poke(Poke(t.mem, OCD_CAUSE, Traps.STEP), OCD_CAUSE + 1, 0),
             OCD_PC, next % 256), OCD_PC + 1, next \div 256)

\* stcs. Writing STOP to ASI_OCD_CTRLA halts the CPU; writing RUN starts it,
\* and with the STEP trap enabled it stops again after one instruction.
store_csr(t, addr, value) ==
    IF t.raised # "" THEN t
    ELSE IF ~(0 <= addr /\ addr <= 15) \/ ~(0 <= value /\ value <= 255) THEN Raise(t, "AssertionError")
    ELSE LET u == command(t, "stcs", addr, value, 0)
         IN  IF u.raised # "" THEN u
             ELSE IF addr = ASI_OCD_CTRLA /\ value = ASI_OCD_STOP THEN [u EXCEPT !.halted = TRUE]
             ELSE IF addr = ASI_OCD_CTRLA /\ value = ASI_OCD_RUN
             THEN IF BitAnd(Peek(u.mem, OCD_TRAPENL), Traps.STEP) # 0
                  THEN [u EXCEPT !.halted = TRUE, !.mem = Stepped(t)]
                  ELSE [u EXCEPT !.halted = FALSE, !.mem = Poke(Poke(@, OCD_CAUSE, 0), OCD_CAUSE + 1, 0)]
             ELSE u

\* lds with a 3-byte address.
load_direct(t, addr, data_width) ==
    IF t.raised # "" THEN [t |-> t, val |-> 0]
    ELSE IF ~(0 <= addr /\ addr <= 16777215) \/ ~(0 <= data_width /\ data_width <= 1)
    THEN [t |-> Raise(t, "AssertionError"), val |-> 0]
    ELSE [t |-> command(t, "lds", addr, 0, data_width),
          val |-> IF data_width = 0 THEN Peek(t.mem, addr)
                  ELSE Peek(t.mem, addr + 1) * 256 + Peek(t.mem, addr)]

\* sts with a 3-byte address.
store_direct(t, addr, data, data_width) ==
    IF t.raised # "" THEN t
    ELSE IF ~(0 <= addr /\ addr <= 16777215)
            \/ ~(   (data_width = 0 /\ 0 <= data /\ data <= 255)
                 \/ (data_width = 1 /\ 0 <= data /\ data <= 65535))
    THEN Raise(t, "AssertionError")
    ELSE LET u == command(t, "sts", addr, data, data_width)
         IN  IF u.raised # "" THEN u
             ELSE IF data_width = 0 THEN [u EXCEPT !.mem = Poke(@, addr, data)]
             ELSE [u EXCEPT !.mem = Poke(Poke(@, addr, data % 256), addr + 1, data \div 256)]

\* st ptr with a 3-byte address.
store_pointer(t, addr) ==
    IF t.raised # "" THEN t
    ELSE IF ~(0 <= addr /\ addr <= 16777215) THEN Raise(t, "AssertionError")
    ELSE command(t, "st_ptr", addr, 0, 2)

repeat(t, count) ==
    IF t.raised # "" THEN t
    ELSE IF ~(1 <= count /\ count <= 256) THEN Raise(t, "AssertionError")
    ELSE command(t, "repeat", count, 0, 0)

\* ld *ptr++ of burst bytes from addr.
load_indirect(t, addr, burst) ==
    IF t.raised # "" THEN [t |-> t, val |-> <<>>]
    ELSE [t |-> command(t, "ld", burst, 0, 0), val |-> PeekBurst(t.mem, addr, burst)]

\* st *ptr++ of burst bytes to addr.
store_indirect(t, addr, data, burst) ==
    IF t.raised # "" THEN t
    ELSE IF ~(Len(data) >= burst) \/ ~(1 <= burst /\ burst <= 255) THEN Raise(t, "AssertionError")
    ELSE LET u == command(t, "st", burst, 0, 0)
         IN  IF u.raised # "" THEN u
             ELSE [u EXCEPT !.mem = PokeBurst(@, addr, SubSeq(data, 1, burst))]

load_burst(t, addr, burst) == load_indirect(repeat(store_pointer(t, addr), burst), addr, burst)

store_burst(t, addr, data, burst) == store_indirect(repeat(store_pointer(t, addr), burst), addr, data, burst)

-----------------------------------------------------------------------------
(* OcdRev1 (debugger.py) *)

\* The flash offset main() passes for a tinyAVR part.
flash_offset == 32768

halt(t) == store_csr(t, ASI_OCD_CTRLA, ASI_OCD_STOP)

run(t) == store_csr(t, ASI_OCD_CTRLA, ASI_OCD_RUN)

\* OcdRev1.resume, which rspserver.py calls: it lets the CPU run.
resume(t) == run(t)

\* is_halted that never sees the CPU stopped.
is_halted_blind(t) == [t |-> load_csr(t, ASI_OCD_STATUS).t, val |-> 0]

\* (ldcs(ASI_OCD_STATUS) & ASI_OCD_STOPPED) or lds(OCD_CAUSE): val # 0 stands for a true value.
is_halted(t) ==
    LET st == load_csr(t, ASI_OCD_STATUS)
        stopped == BitAnd(st.val, ASI_OCD_STOPPED)
    IN  IF stopped # 0 THEN [t |-> st.t, val |-> stopped]
        ELSE load_direct(st.t, OCD_CAUSE, WIDTH_BYTE)

\* poll_halted() with its defaults: it returns once is_halted is true.  Within
\* one handler nothing but the handler acts on the target, so a poll that finds
\* the CPU running spins for good ("hang").
poll_halted(t) ==
    LET h == is_halted(t)
    IN  IF h.t.raised # "" \/ h.val # 0 THEN h.t ELSE Raise(h.t, "hang")

\* The CPU stops at a breakpoint.
TargetStops(t) ==
    [t EXCEPT !.halted = TRUE,
              !.mem = Poke(Poke(@, OCD_CAUSE, Traps.BP0 % 256), OCD_CAUSE + 1, Traps.BP0 \div 256)]

\* poll_halted that gives up when count has reached 0.
RECURSIVE poll_halted_n_late(_, _, _, _, _)
poll_halted_n_late(t, bounded, count, willhalt, after) ==
    LET h == is_halted(IF willhalt /\ after = 0 /\ ~t.halted THEN TargetStops(t) ELSE t)
    IN  IF h.t.raised # "" THEN [t |-> h.t, val |-> FALSE]
        ELSE IF h.val # 0 THEN [t |-> h.t, val |-> TRUE]
        ELSE IF bounded /\ count <= 0 THEN [t |-> h.t, val |-> FALSE]
        ELSE IF ~bounded /\ ~willhalt THEN [t |-> Raise(h.t, "hang"), val |-> FALSE]
        ELSE poll_halted_n_late(h.t, bounded, IF bounded THEN count - 1 ELSE count,
                                willhalt, IF after > 0 THEN after - 1 ELSE 0)

\* poll_halted(count=count) when bounded, poll_halted() otherwise, on a target
\* that stops by itself after `after` evaluations of is_halted when willhalt
\* and never otherwise.  A poll without count of a target that never stops
\* spins for good ("hang").
RECURSIVE poll_halted_n(_, _, _, _, _)
poll_halted_n(t, bounded, count, willhalt, after) ==
    LET h == is_halted(IF willhalt /\ after = 0 /\ ~t.halted THEN TargetStops(t) ELSE t)
    IN  IF h.t.raised # "" THEN [t |-> h.t, val |-> FALSE]
        ELSE IF h.val # 0 THEN [t |-> h.t, val |-> TRUE]
        ELSE IF bounded /\ count <= 1 THEN [t |-> h.t, val |-> FALSE]
        ELSE IF ~bounded /\ ~willhalt THEN [t |-> Raise(h.t, "hang"), val |-> FALSE]
        ELSE poll_halted_n(h.t, bounded, IF bounded THEN count - 1 ELSE count,
                           willhalt, IF after > 0 THEN after - 1 ELSE 0)

\* reset that never releases the reset request.
reset_held(t) == load_csr(store_csr(t, ASI_RESET_REQ, ASI_RSTREQ_RESET), ASI_SYS_STATUS).t

\* The reset request; ASI_SYS_STATUS reads with SYSRST clear once the run request is written.
reset(t) ==
    load_csr(store_csr(store_csr(t, ASI_RESET_REQ, ASI_RSTREQ_RESET),
                       ASI_RESET_REQ, ASI_RSTREQ_RUN), ASI_SYS_STATUS).t

set_traps(t, traps) == store_direct(t, OCD_TRAPEN, traps, WIDTH_WORD)

enable_traps(t, traps) ==
    LET current == load_direct(t, OCD_TRAPEN, WIDTH_WORD)
    IN  store_direct(current.t, OCD_TRAPEN, BitOr(traps, current.val), WIDTH_WORD)

disable_traps(t, traps) ==
    LET current == load_direct(t, OCD_TRAPEN, WIDTH_WORD)
    IN  store_direct(current.t, OCD_TRAPEN, BitAndNot(current.val, traps), WIDTH_WORD)

set_bp(t, bpid, wordaddr) ==
    LET byteaddr == (wordaddr * 2) % 65536
        topbit == wordaddr \div 32768
        origregval == load_direct(t, OCD_TRAPENH, WIDTH_BYTE)
        u == enable_traps(origregval.t, Traps.HWBP)
    IN  IF bpid = 0
        THEN store_direct(store_direct(store_direct(u,
                 OCD_BP0A, byteaddr, WIDTH_WORD),
                 OCD_BP0AT, topbit, WIDTH_BYTE),
                 OCD_TRAPENH, BitOr(origregval.val, 1), WIDTH_BYTE)
        ELSE IF bpid = 1
        THEN store_direct(store_direct(store_direct(u,
                 OCD + 4, byteaddr, WIDTH_WORD),
                 OCD + 6, topbit, WIDTH_BYTE),
                 OCD_TRAPENH, BitOr(origregval.val, 2), WIDTH_BYTE)
        ELSE u

\* clear_bp that zeroes the address registers and leaves the enable bit set.
clear_bp_keepbit(t, bpid) ==
    IF bpid = 0
    THEN store_direct(store_direct(t, OCD_BP0A, 0, WIDTH_WORD), OCD_BP0AT, 0, WIDTH_BYTE)
    ELSE IF bpid = 1
    THEN store_direct(store_direct(t, OCD + 4, 0, WIDTH_WORD), OCD + 6, 0, WIDTH_BYTE)
    ELSE t

clear_bp(t, bpid) ==
    LET origregval == load_direct(t, OCD_TRAPENH, WIDTH_BYTE)
    IN  IF bpid = 0
        THEN store_direct(store_direct(store_direct(origregval.t,
                 OCD_TRAPENH, BitAndNot(origregval.val, 1), WIDTH_BYTE),
                 OCD_BP0A, 0, WIDTH_WORD),
                 OCD_BP0AT, 0, WIDTH_BYTE)
        ELSE IF bpid = 1
        THEN store_direct(store_direct(store_direct(origregval.t,
                 OCD_TRAPENH, BitAndNot(origregval.val, 2), WIDTH_BYTE),
                 OCD + 4, 0, WIDTH_WORD),
                 OCD + 6, 0, WIDTH_BYTE)
        ELSE origregval.t

\* step that restores the trap mask with a word store.
step_wordrestore(t) ==
    LET origregval == load_direct(t, OCD_TRAPENL, WIDTH_BYTE)
    IN  store_direct(
            poll_halted(run(store_direct(origregval.t,
                OCD_TRAPENL, BitOr(origregval.val, Traps.STEP), WIDTH_BYTE))),
            OCD_TRAPEN, origregval.val, WIDTH_WORD)

step(t) ==
    LET origregval == load_direct(t, OCD_TRAPENL, WIDTH_BYTE)
    IN  store_direct(
            poll_halted(run(store_direct(origregval.t,
                OCD_TRAPENL, BitOr(origregval.val, Traps.STEP), WIDTH_BYTE))),
            OCD_TRAPENL, origregval.val, WIDTH_BYTE)

get_pc(t) ==
    LET r == load_direct(t, OCD_PC, WIDTH_WORD)
    IN  [t |-> r.t, val |-> r.val - 1]

\* set_pc that stores the program counter without truncating it to 16 bits.
set_pc_wide(t, pc_) == step(store_direct(t, OCD_PC, pc_, WIDTH_WORD))

\* set_pc that leaves out the step after the store.
set_pc_nostep(t, pc_) == store_direct(t, OCD_PC, pc_ % 65536, WIDTH_WORD)

set_pc(t, pc_) == step(store_direct(t, OCD_PC, pc_ % 65536, WIDTH_WORD))

get_sp(t) == load_direct(t, OCD_SP, WIDTH_WORD)

set_sp(t, sp) == store_direct(t, OCD_SP, sp, WIDTH_WORD)

get_sreg(t) == load_direct(t, OCD_SREG, WIDTH_BYTE)

set_sreg(t, sreg) == store_direct(t, OCD_SREG, sreg, WIDTH_BYTE)

get_register_file(t) == load_burst(t, OCD_R0, 32)

set_register_file(t, data) ==
    IF t.raised # "" THEN t
    ELSE IF Len(data) # 32 THEN Raise(t, "AssertionError")
    ELSE store_burst(t, OCD_R0, data, 32)

\* The OcdRev1 memory method called with its arguments, as the server calls it.
Called(t, method, start, length) ==
    IF t.raised # "" THEN t ELSE [t EXCEPT !.calls = Append(@, <<method, start, length>>)]

read_code(t, start, length) ==
    LET u == Called(t, "read_code", start, length)
    IN  IF start < 0 \/ 2097152 <= start \/ length <= 0 THEN [t |-> u, val |-> <<>>]
        ELSE load_burst(u, start + flash_offset, Min(length, 256))

\* read_data that passes the length on without clamping it to 256.
read_data_unclamped(t, start, length) ==
    LET u == Called(t, "read_data", start, length)
    IN  IF start < 0 \/ 65536 <= start \/ length <= 0 THEN [t |-> u, val |-> <<>>]
        ELSE load_burst(u, start, length)

read_data(t, start, length) ==
    LET u == Called(t, "read_data", start, length)
    IN  IF start < 0 \/ 65536 <= start \/ length <= 0 THEN [t |-> u, val |-> <<>>]
        ELSE load_burst(u, start, Min(length, 256))

\* write_data without the test of start against the data space.
write_data_unchecked(t, start, data) ==
    LET u == Called(t, "write_data", start, Len(data))
    IN  IF Len(data) = 0 \/ Len(data) > 256
        THEN [t |-> u, val |-> FALSE]
        ELSE [t |-> store_burst(u, start, data, Len(data)), val |-> TRUE]

\* val is the truth value returned.
write_data(t, start, data) ==
    LET u == Called(t, "write_data", start, Len(data))
    IN  IF start < 0 \/ 65536 <= start \/ Len(data) = 0 \/ Len(data) > 256
        THEN [t |-> u, val |-> FALSE]
        ELSE [t |-> store_burst(u, start, data, Len(data)), val |-> TRUE]

-----------------------------------------------------------------------------
(* RspServer.handle_packet (rspserver.py) *)

SIGTRAP == Str(<<"S","0","5">>)
SIGINT == Str(<<"S","0","2">>)
ERR_GENERAL == Str(<<"E","0","0">>)
ERR_INVALIDARGS == Str(<<"E","0","1">>)
ERR_ADDROUTOFRANGE == Str(<<"E","0","2">>)
ERR_OUTOFHWBP == Str(<<"E","0","4">>)
ERR_NOSUCHBP == Str(<<"E","0","5">>)
OK == Str(<<"O","K">>)

\* client.sendall(data)
sendall(t, data) ==
    IF t.raised # "" THEN t
    ELSE [t EXCEPT !.out = Append(@, data), !.events = Append(@, <<"send", data>>)]

\* self.send_packet(data)
SendPacket(t, data) == sendall(t, send_packet(data))

\* The two fields of parse_addr, once split.
ParseFields(parts) ==
    IF Len(parts) = 2 /\ IntBase16(parts[1]).ok /\ IntBase16(parts[2]).ok
    THEN [ok |-> TRUE, addr |-> IntBase16(parts[1]).val, length |-> IntBase16(parts[2]).val]
    ELSE [ok |-> FALSE, addr |-> 0, length |-> 0]

\* parse_addr: ok is FALSE for (None, 0).
parse_addr(s) == ParseFields(Split(s, COMMA))

\* The i-th byte of decode_hex_array, before bytes() checks its range.
HexByte(s, i) == IntBase16(SubSeq(s, 2 * i - 1, 2 * i))

\* decode_hex_array: bytes() of a value outside 0..255 is a ValueError too.
decode_hex_array(s) ==
    IF \A i \in 1..(Len(s) \div 2) :
          HexByte(s, i).ok /\ HexByte(s, i).val >= 0 /\ HexByte(s, i).val <= 255
    THEN [i \in 1..(Len(s) \div 2) |-> HexByte(s, i).val]
    ELSE <<>>

\* The operand of Z1 and z1: int(packet[3:].split(",")[0], 16)
BpAddr(packet) == IntBase16(Split(From(packet, 3), COMMA)[1])

\* The Z1 branch once the address is parsed.
SetBreakpoint(t, addr) ==
    IF ~addr.ok THEN SendPacket(t, ERR_INVALIDARGS)
    ELSE IF t.bps[1] < 0
    THEN SendPacket(set_bp([t EXCEPT !.bps[1] = addr.val], 0, addr.val \div 2), OK)
    ELSE IF t.bps[2] < 0
    THEN SendPacket(set_bp([t EXCEPT !.bps[2] = addr.val], 1, addr.val \div 2), OK)
    ELSE SendPacket(t, ERR_OUTOFHWBP)

HandleZ1(t, packet) == SetBreakpoint(t, BpAddr(packet))

\* The z1 branch once the address is parsed.
ClearBreakpoint(t, addr) ==
    IF ~addr.ok THEN SendPacket(t, ERR_INVALIDARGS)
    ELSE IF t.bps[1] = addr.val
    THEN SendPacket(clear_bp([t EXCEPT !.bps[1] = -1], 0), OK)
    ELSE IF t.bps[2] = addr.val
    THEN SendPacket(clear_bp([t EXCEPT !.bps[2] = -1], 1), OK)
    ELSE SendPacket(t, ERR_NOSUCHBP)

Handlez1(t, packet) == ClearBreakpoint(t, BpAddr(packet))

\* The reply of g from the values read: pc_ is get_pc() << 1.
RegisterReply(gprs, sreg, sp, pc_) ==
    BytesHex(gprs) \o Fmt02x(sreg) \o Fmt02x(sp % 256) \o Fmt02x(sp \div 256)
    \o Fmt02x(pc_ % 256) \o Fmt02x((pc_ \div 256) % 256) \o Fmt02x(pc_ \div 65536)
    \o Str(<<"0","0">>)

Handleg(t, packet) ==
    LET gprs == get_register_file(t)
        sreg == get_sreg(gprs.t)
        sp == get_sp(sreg.t)
        pcw == get_pc(sp.t)
    IN  SendPacket(pcw.t, RegisterReply(gprs.val, sreg.val, sp.val, pcw.val * 2))

\* The G branch once the operand is decoded.
WriteRegisters(t, data) ==
    IF Len(data) # 39 THEN SendPacket(t, ERR_INVALIDARGS)
    ELSE SendPacket(
             set_pc(set_sp(set_sreg(set_register_file(t, SubSeq(data, 1, 32)),
                                    data[33]),
                           data[34] + data[35] * 256),
                    (data[36] + data[37] * 256 + data[38] * 65536) \div 2),
             OK)

HandleG(t, packet) == WriteRegisters(t, decode_hex_array(From(packet, 1)))

\* 0 <= addr < 0x200000 with the upper bound included.
InCodeSpace_inclusive(addr) == 0 <= addr /\ addr <= 2097152

\* 0 <= addr < 0x200000
InCodeSpace(addr) == 0 <= addr /\ addr < 2097152

\* 0x800000 <= addr < 0x810000
InDataSpace(addr) == 8388608 <= addr /\ addr < 8454144

\* The reply of m from what read_code or read_data returned, if either was called.
ReplyData(data) ==
    IF data.val # <<>> THEN SendPacket(data.t, BytesHex(data.val))
    ELSE SendPacket(data.t, ERR_ADDROUTOFRANGE)

\* The m branch once the operand is parsed.
ReadMemory(t, pa) ==
    IF ~pa.ok THEN SendPacket(t, ERR_INVALIDARGS)
    ELSE IF InCodeSpace(pa.addr) THEN ReplyData(read_code(t, pa.addr, pa.length))
    ELSE IF InDataSpace(pa.addr) THEN ReplyData(read_data(t, pa.addr - 8388608, pa.length))
    ELSE ReplyData([t |-> t, val |-> <<>>])

Handlem(t, packet) == ReadMemory(t, parse_addr(From(packet, 1)))

\* The end of the M branch, from what write_data returned.
ReplyWritten(w) ==
    IF w.val THEN SendPacket(w.t, OK) ELSE SendPacket(w.t, ERR_INVALIDARGS)

\* The M branch once address and data are parsed.
WriteMemory(t, pa, data) ==
    IF ~pa.ok \/ Len(data) # pa.length THEN SendPacket(t, ERR_INVALIDARGS)
    ELSE IF ~InDataSpace(pa.addr)
    THEN ReplyWritten(write_data(SendPacket(t, ERR_ADDROUTOFRANGE), pa.addr - 8388608, data))
    ELSE ReplyWritten(write_data(t, pa.addr - 8388608, data))

\* The M branch once the packet is split at ':'.
WriteCommand(t, cmd) ==
    IF Len(cmd) # 2 THEN SendPacket(t, ERR_INVALIDARGS)
    ELSE WriteMemory(t, parse_addr(cmd[1]), decode_hex_array(cmd[2]))

HandleM(t, packet) == WriteCommand(t, Split(From(packet, 1), COLON))

\* bytes.decode(errors="ignore"): UTF-8, a byte that starts no well-formed
\* sequence is dropped; a character outside ASCII is written 128.
IsCont(s, i) == i <= Len(s) /\ 128 <= s[i] /\ s[i] <= 191

Utf8Len(s) ==
    LET b == s[1]
    IN  IF b < 128 THEN 1
        ELSE IF 194 <= b /\ b <= 223 /\ IsCont(s, 2) THEN 2
        ELSE IF 224 <= b /\ b <= 239 /\ IsCont(s, 2) /\ IsCont(s, 3)
                /\ (b = 224 => s[2] >= 160) /\ (b = 237 => s[2] <= 159) THEN 3
        ELSE IF 240 <= b /\ b <= 244 /\ IsCont(s, 2) /\ IsCont(s, 3) /\ IsCont(s, 4)
                /\ (b = 240 => s[2] >= 144) /\ (b = 244 => s[2] <= 143) THEN 4
        ELSE 0

RECURSIVE Utf8Ignore(_)
Utf8Ignore(s) ==
    IF s = <<>> THEN <<>>
    ELSE LET n == Utf8Len(s)
         IN  IF n = 0 THEN Utf8Ignore(Tail(s))
             ELSE IF n = 1 THEN <<s[1]>> \o Utf8Ignore(Tail(s))
             ELSE <<128>> \o Utf8Ignore(From(s, n))

\* The monitor commands with a trap to switch and the text they answer.
TrapCommands ==
    << <<Str(<<"i","n","t","t","r","a","p">>), Traps.INT,
         Str(<<"I","n","t","e","r","r","u","p","t"," ","t","r","a","p">>)>>,
       <<Str(<<"j","m","p","t","r","a","p">>), Traps.JMP,
         Str(<<"J","u","m","p"," ","t","r","a","p">>)>>,
       <<Str(<<"u","n","k","1">>), Traps.UNKNOWN1, Str(<<"U","N","K","N","O","W","N","1">>)>> >>

\* OcdRev1.old_step, which rspserver.py calls: the STEP trap is set and the
\* CPU started, without polling.
old_step(t) ==
    LET origregval == load_direct(t, OCD_TRAPENL, WIDTH_BYTE)
    IN  run(store_direct(origregval.t, OCD_TRAPENL, BitOr(origregval.val, Traps.STEP), WIDTH_BYTE))

\* The command of TrapCommands that cmd names when followed by suffix, 0 for none.
TrapCommand(cmd, suffix) ==
    IF \E i \in 1..Len(TrapCommands) : cmd = TrapCommands[i][1] \o suffix
    THEN CHOOSE i \in 1..Len(TrapCommands) : cmd = TrapCommands[i][1] \o suffix
    ELSE 0

\* The text step answers with.
LegacyStepping ==
    Str(<<"L","e","g","a","c","y"," ","s","t","e","p","p","i","n","g",","," ","C","t","r","l","+","C">>) \o <<10>>

\* A qRcmd branch whose step is the polling step of the s request.
MonitorCommand_polls(t, cmd, on, off) ==
    IF cmd = Str(<<"s","t","e","p">>) THEN SendPacket(step(t), BytesHex(LegacyStepping))
    ELSE SendPacket(t, <<>>)

\* The qRcmd branch once the command is decoded.
MonitorCommand(t, cmd, on, off) ==
    IF cmd = Str(<<"r","e","s","e","t">>) THEN SendPacket(reset(t), OK)
    ELSE IF on # 0
    THEN SendPacket(enable_traps(t, TrapCommands[on][2]),
             BytesHex(TrapCommands[on][3] \o Str(<<" ","e","n","a","b","l","e","d">>) \o <<10>>))
    ELSE IF off # 0
    THEN SendPacket(disable_traps(t, TrapCommands[off][2]),
             BytesHex(TrapCommands[off][3] \o Str(<<" ","d","i","s","a","b","l","e","d">>) \o <<10>>))
    ELSE IF cmd \in {Str(<<"u","n","k","2"," ","o","n">>), Str(<<"u","n","k","2"," ","o","f","f">>)}
    THEN Raise(t, "AttributeError")   \* the Traps of debugger.py has no UNKNOWN2
    ELSE IF cmd = Str(<<"s","t","e","p">>)
    THEN SendPacket(old_step(t), BytesHex(LegacyStepping))
    ELSE SendPacket(t, <<>>)

\* cmd is decode_hex_array(packet[6:]).decode(errors="ignore")
MonitorDecoded(t, cmd) ==
    MonitorCommand(t, cmd, TrapCommand(cmd, Str(<<" ","o","n">>)), TrapCommand(cmd, Str(<<" ","o","f","f">>)))

HandleqRcmd(t, packet) == MonitorDecoded(t, Utf8Ignore(decode_hex_array(From(packet, 6))))

\* The branch of handle_packet a packet takes, by the order of its startswith tests.
Kind(packet) ==
    LET is(prefix) == StartsWith(packet, Str(prefix))
    IN  IF is(<<"q","S","u","p","p","o","r","t","e","d">>) THEN "qSupported"
        ELSE IF is(<<"q","S","y","m","b","o","l",":",":">>) THEN "qSymbol"
        ELSE IF is(<<"!">>) THEN "!"
        ELSE IF is(<<"?">>) THEN "?"
        ELSE IF is(<<"s">>) THEN "s"
        ELSE IF is(<<"c">>) THEN "c"
        ELSE IF is(<<"g">>) THEN "g"
        ELSE IF is(<<"G">>) THEN "G"
        ELSE IF is(<<"m">>) THEN "m"
        ELSE IF is(<<"M">>) THEN "M"
        ELSE IF is(<<"Z","1">>) THEN "Z1"
        ELSE IF is(<<"z","1">>) THEN "z1"
        ELSE IF is(<<"z","0">>) \/ is(<<"Z","0">>) THEN "z0"
        ELSE IF is(<<"v","A","t","t","a","c","h">>) THEN "vAttach"
        ELSE IF is(<<"q","R","c","m","d">>) THEN "qRcmd"
        ELSE IF is(<<"k">>) THEN "k"
        ELSE IF is(<<"v","K","i","l","l">>) THEN "vKill"
        ELSE IF is(<<"v","R","u","n">>) THEN "vRun"
        ELSE IF is(<<"R">>) \/ is(<<"r">>) THEN "R"
        ELSE IF is(<<"T">>) \/ is(<<"H">>) THEN "T"
        ELSE IF is(<<"D">>) THEN "D"
        ELSE "unknown"

\* The branch k of handle_packet.
Branch(t, packet, k) ==
    CASE k = "qSupported" -> SendPacket(t, Str(<<"P","a","c","k","e","t","S","i","z","e","=","1","0","2","4">>))
      [] k \in {"qSymbol", "!", "vKill", "T"} -> SendPacket(t, OK)
      [] k \in {"?", "vAttach"} -> SendPacket(t, SIGTRAP)
      [] k = "s" -> SendPacket(step(t), SIGTRAP)
      [] k = "c" -> resume(t)
      [] k = "g" -> Handleg(t, packet)
      [] k = "G" -> HandleG(t, packet)
      [] k = "m" -> Handlem(t, packet)
      [] k = "M" -> HandleM(t, packet)
      [] k = "Z1" -> HandleZ1(t, packet)
      [] k = "z1" -> Handlez1(t, packet)
      [] k = "z0" -> SendPacket(t, ERR_GENERAL)
      [] k = "qRcmd" -> HandleqRcmd(t, packet)
      [] k = "k" -> t
      [] k = "vRun" -> SendPacket(reset(t), SIGTRAP)
      [] k = "R" -> reset(t)
      [] k = "D" -> Raise(t, "StopIteration")
      [] OTHER -> SendPacket(t, <<>>)

\* handle_packet up to its return, its raise or, for "c", the entry of the polling loop.
handle_packet(t, packet) == Branch(t, packet, Kind(packet))

-----------------------------------------------------------------------------
(* RspServer.serve and its client *)

\* The most break bytes the client has outstanding: in flight or held in pendingpacket.
MaxBreaks == 1

\* attach, without the UPDI handshake and the key.
attach(t) == store_csr(t, UPDI_CTRLA, UPDI_CTRLA_GTVAL_2CYCLES)

\* UpdiRev3.disconnect up to the close of the port: the UPDI-disable
\* instruction, if the port is open.  The port is closed if it did not raise.
disconnect(t, is_open) == IF is_open THEN store_csr(t, UPDI_CTRLB, UPDI_CTRLB_UPDIDIS) ELSE t

\* OcdRev1.detach
detach(t, is_open) == disconnect(t, is_open)

\* The serial port after disconnect has run as t.
AfterDisconnect(t, uart_) == IF uart_ = "open" /\ t.raised = "" THEN "closed" ELSE uart_

\* The target after the prologue of serve on a running CPU whose register window is mem0.
Attached(mem0) ==
    set_traps(halt(attach(Machine(<<-1, -1>>, mem0, FALSE))), BitOr(Traps.SWBP, Traps.HWBP))

\* The server blocked in its first recv, the client about to send packets of menu_.
InitServer(menu_, mem0) ==
    /\ IdleCalls
    /\ link = -1
    /\ eof = FALSE
    /\ res = [uart |-> "open", client |-> "open", socket |-> "open"]
    /\ exc = ""
    /\ exitcode = -1
    /\ events = <<>>
    /\ wire = <<>>
    /\ oob = <<>>
    /\ sent = <<>>
    /\ menu = menu_
    /\ pendingpacket = <<>>
    /\ decoded = <<>>
    /\ ncalls = 0
    /\ frames = <<>>
    /\ tampered = FALSE
    /\ pc = "recv"
    /\ packets = <<>>
    /\ req = <<>>
    /\ was = <<-1, -1>>
    /\ bps = <<-1, -1>>
    /\ intr = FALSE
    /\ lastbreak = FALSE
    /\ mem = Attached(mem0).mem
    /\ halted = Attached(mem0).halted
    /\ calls = <<>>
    /\ updi = <<>>

\* A step of serve that goes on at next whatever was raised.
CommitOr_swallow(t, next, handler) ==
    /\ bps' = t.bps
    /\ mem' = t.mem
    /\ halted' = t.halted
    /\ updi' = t.updi
    /\ calls' = t.calls
    /\ events' = t.events
    /\ link' = t.fuel
    /\ exc' = exc
    /\ pc' = next

\* What a step of serve leaves behind: it goes on at next, or an exception
\* takes it to handler; a poll that never ends stays where it is.
CommitOr(t, next, handler) ==
    /\ bps' = t.bps
    /\ mem' = t.mem
    /\ halted' = t.halted
    /\ updi' = t.updi
    /\ calls' = t.calls
    /\ events' = t.events
    /\ link' = t.fuel
    /\ exc' = IF t.raised \in {"", "hang"} THEN exc ELSE t.raised
    /\ pc' = IF t.raised = "" THEN next
             ELSE IF t.raised = "hang" THEN "hang"
             ELSE handler

\* What a handler leaves behind; an exception leaves serve through its finally clause.
Commit(t, next) == CommitOr(t, next, "finally")

\* What a step before the try statement leaves behind.
Commit_prologue(t, next) == CommitOr(t, next, "main")

\* The prologue of serve.  An exception raised in it leaves serve before the
\* try statement is entered: the finally clause is not run.
Attach ==
    /\ pc = "attach"
    /\ Commit_prologue(attach(Machine(bps, mem, halted)), "halt")
    /\ res' = [res EXCEPT !.uart = "open"]
    /\ UNCHANGED <<wire, oob, sent, menu, eof, codecVars, packets, req, was, intr, lastbreak, exitcode>>
    /\ UNCHANGED callVars

Halt ==
    /\ pc = "halt"
    /\ Commit_prologue(halt(Machine(bps, mem, halted)), "set_traps")
    /\ UNCHANGED <<wire, oob, sent, menu, eof, codecVars, packets, req, was, intr, lastbreak, res, exitcode>>
    /\ UNCHANGED callVars

SetTraps ==
    /\ pc = "set_traps"
    /\ Commit_prologue(set_traps(Machine(bps, mem, halted), BitOr(Traps.SWBP, Traps.HWBP)), "accept")
    /\ UNCHANGED <<wire, oob, sent, menu, eof, codecVars, packets, req, was, intr, lastbreak, res, exitcode>>
    /\ UNCHANGED callVars

\* accept called while the trap mask is still to be written.
Accept_early ==
    /\ pc \in {"set_traps", "accept"}
    /\ res.client = "none"
    /\ res' = [res EXCEPT !.client = "open"]
    /\ pc' = "recv"
    /\ events' = <<>>
    /\ updi' = <<>>
    /\ UNCHANGED <<wire, oob, sent, menu, eof, codecVars, packets, req, was, bps, intr, lastbreak,
                   exc, exitcode, mem, halted, calls, link>>
    /\ UNCHANGED callVars

\* socket.accept returns the connection of the client.
Accept ==
    /\ pc = "accept"
    /\ res.client = "none"
    /\ res' = [res EXCEPT !.client = "open"]
    /\ pc' = "recv"
    /\ events' = <<>>
    /\ updi' = <<>>
    /\ UNCHANGED <<wire, oob, sent, menu, eof, codecVars, packets, req, was, bps, intr, lastbreak,
                   exc, exitcode, mem, halted, calls, link>>
    /\ UNCHANGED callVars

\* Where serve goes when handle_packet returns.
AfterPacket(rest) == IF rest = <<>> THEN "recv" ELSE "dispatch"

\* The interrupt sequence with the acknowledgement sent once the CPU has stopped.
Interrupt_lateack(t) == SendPacket(sendall(poll_halted(halt(t)), <<PLUS>>), SIGINT)

\* The interrupt sequence of serve and of the continue loop.
Interrupt(t) == SendPacket(poll_halted(halt(sendall(t, <<PLUS>>))), SIGINT)

\* The client frames a request and sends it once the server has answered the last one.
ClientRequest ==
    /\ pc = "recv"
    /\ wire = <<>>
    /\ ~eof
    /\ \E p \in menu :
          /\ wire' = send_packet(p)
          /\ oob' = [i \in 1..Len(send_packet(p)) |-> FALSE]
    /\ UNCHANGED <<sent, menu, eof, codecVars, serverVars, targetVars>>
    /\ UNCHANGED callVars

\* The client sends up to MaxFrames requests back to back, without waiting for
\* the answers; frames keeps what it sent.
ClientPipeline ==
    /\ pc = "recv"
    /\ wire = <<>>
    /\ ~eof
    /\ \E fs \in BoundedSeqs(menu, MaxFrames) \ {<<>>} :
          /\ frames' = fs
          /\ wire' = FramedStream(fs)
          /\ oob' = [i \in 1..Len(FramedStream(fs)) |-> FALSE]
    /\ UNCHANGED <<sent, menu, eof, pendingpacket, decoded, ncalls, tampered, serverVars, targetVars>>
    /\ UNCHANGED callVars

\* The client sends a break byte, between frames or in the middle of one it is sending.
ClientBreak ==
    /\ pc \in {"recv", "dispatch", "c_check", "c_recv"}
    /\ ~eof
    /\ Cardinality({i \in 1..Len(wire) : wire[i] = ETX})
         + Cardinality({i \in 1..Len(pendingpacket) : pendingpacket[i] = ETX}) < MaxBreaks
    /\ wire' = Append(wire, ETX)
    /\ oob' = Append(oob, TRUE)
    /\ UNCHANGED <<sent, menu, eof, codecVars, serverVars, targetVars>>
    /\ UNCHANGED callVars

\* The client closes the connection.
ClientClose ==
    /\ pc \in {"recv", "dispatch", "c_check", "c_recv"}
    /\ ~eof
    /\ eof' = TRUE
    /\ UNCHANGED <<wire, oob, sent, menu, codecVars, serverVars, targetVars>>
    /\ UNCHANGED callVars

\* One iteration of the packet loop up to its for loop: recv, process_bytes
\* and the interrupt test on the received data.  recv blocks until the client
\* has sent something or closed; once the client has closed and the data are
\* read, recv returns no bytes.
ServeRecv ==
    /\ pc = "recv"
    /\ wire # <<>> \/ eof
    /\ \E n \in (IF wire = <<>> THEN 0 ELSE 1)..Min(Len(wire), 1024) :
          \E r \in {process_bytes(pendingpacket, SubSeq(wire, 1, n))} :
              /\ wire' = From(wire, n)
              /\ oob' = From(oob, n)
              /\ pendingpacket' = r.pending
              /\ decoded' = r.out
              /\ packets' = r.out
              /\ intr' = Contains(SubSeq(wire, 1, n), ETX)
              /\ lastbreak' = \E i \in 1..n : oob[i]
              /\ \E u \in {IF Contains(SubSeq(wire, 1, n), ETX)
                           THEN Interrupt(Machine(bps, mem, halted))
                           ELSE Machine(bps, mem, halted)} :
                    sent' = u.out /\ Commit(u, AfterPacket(r.out))
    /\ req' = <<>>
    /\ was' = bps
    /\ UNCHANGED <<menu, ncalls, frames, tampered, eof, res, exitcode>>
    /\ UNCHANGED callVars

\* An iteration of the for loop that acknowledges the packet once it is handled.
Dispatch_lateack ==
    /\ pc = "dispatch"
    /\ \E t \in {sendall(handle_packet(Machine(bps, mem, halted), Head(packets)), <<PLUS>>)} :
          /\ sent' = t.out
          /\ Commit(t, IF Kind(Head(packets)) = "c" THEN "c_check" ELSE AfterPacket(Tail(packets)))
    /\ req' = Head(packets)
    /\ was' = bps
    /\ packets' = Tail(packets)
    /\ UNCHANGED <<wire, oob, menu, pendingpacket, decoded, ncalls, frames, tampered, intr, lastbreak,
                   eof, res, exitcode>>
    /\ UNCHANGED callVars

\* One iteration of the for loop: the acknowledgement and handle_packet.
Dispatch ==
    /\ pc = "dispatch"
    /\ \E t \in {handle_packet(sendall(Machine(bps, mem, halted), <<PLUS>>), Head(packets))} :
          /\ sent' = t.out
          /\ Commit(t, IF Kind(Head(packets)) = "c" THEN "c_check" ELSE AfterPacket(Tail(packets)))
    /\ req' = Head(packets)
    /\ was' = bps
    /\ packets' = Tail(packets)
    /\ UNCHANGED <<wire, oob, menu, pendingpacket, decoded, ncalls, frames, tampered, intr, lastbreak,
                   eof, res, exitcode>>
    /\ UNCHANGED callVars

\* The head of an iteration of the continue loop: the is_halted test and, if
\* the CPU has stopped, S05 and the return to the packet loop.
CCheck ==
    /\ pc = "c_check"
    /\ \E h \in {is_halted(Machine(bps, mem, halted))} :
          \E t \in {IF h.val # 0 THEN SendPacket(h.t, SIGTRAP) ELSE h.t} :
             /\ sent' = sent \o t.out
             /\ Commit(t, IF h.val # 0 THEN AfterPacket(packets) ELSE "c_recv")
    /\ UNCHANGED <<wire, oob, menu, codecVars, packets, req, was, intr, lastbreak, eof, res, exitcode>>
    /\ UNCHANGED callVars

\* The rest of the iteration: recv(1) under a timeout of 10 ms, which yields a
\* byte the client has sent (n = 1) or times out (n = 0), and the interrupt
\* sequence if the byte is 0x03.
CRecv ==
    /\ pc = "c_recv"
    /\ \E n \in 0..Min(1, Len(wire)) :
          /\ wire' = From(wire, n)
          /\ oob' = From(oob, n)
          /\ intr' = Contains(SubSeq(wire, 1, n), ETX)
          /\ lastbreak' = (n = 1 /\ oob[1])
          /\ \E t \in {IF Contains(SubSeq(wire, 1, n), ETX)
                       THEN Interrupt(Machine(bps, mem, halted))
                       ELSE Machine(bps, mem, halted)} :
                /\ sent' = sent \o t.out
                /\ Commit(t, IF Contains(SubSeq(wire, 1, n), ETX) THEN AfterPacket(packets) ELSE "c_check")
    /\ UNCHANGED <<menu, codecVars, packets, req, was, eof, res, exitcode>>
    /\ UNCHANGED callVars

\* The finally clause of serve: detach, then the two sockets are closed.  An
\* exception raised by detach replaces the pending one and skips the closes.
Finally ==
    /\ pc = "finally"
    /\ \E t \in {detach(Machine(bps, mem, halted), res.uart = "open")} :
          /\ res' = IF t.raised # "" THEN res
                    ELSE [uart |-> AfterDisconnect(t, res.uart), client |-> "closed", socket |-> "closed"]
          /\ CommitOr(t, "main", "main")
    /\ UNCHANGED <<wire, oob, sent, menu, eof, codecVars, packets, req, was, intr, lastbreak, exitcode>>
    /\ UNCHANGED callVars

\* The exceptions main catches: each of their clauses calls disconnect and exits.
Caught == {"UpdiException", "StopIteration", "KeyboardInterrupt"}

\* The except clauses of main.  UpdiException: disconnect and exit(1);
\* StopIteration, KeyboardInterrupt: disconnect and exit(0).  Any other
\* exception, and one raised by disconnect inside a clause, is not caught: the
\* interpreter prints the traceback and exits with code 1.
MainExit ==
    /\ pc = "main"
    /\ \E t \in {IF exc \in Caught THEN disconnect(Machine(bps, mem, halted), res.uart = "open")
                  ELSE Machine(bps, mem, halted)} :
          /\ res' = [res EXCEPT !.uart = IF exc \in Caught THEN AfterDisconnect(t, @) ELSE @]
          /\ exitcode' = IF exc \in {"StopIteration", "KeyboardInterrupt"} /\ t.raised = "" THEN 0 ELSE 1
          /\ CommitOr(t, "done", "done")
    /\ UNCHANGED <<wire, oob, sent, menu, eof, codecVars, packets, req, was, intr, lastbreak>>
    /\ UNCHANGED callVars

\* Ctrl-C on the terminal of the bridge while serve is in its loop.
CtrlC ==
    /\ pc \in {"recv", "dispatch", "c_check", "c_recv", "hang"}
    /\ pc' = "finally"
    /\ exc' = "KeyboardInterrupt"
    /\ UNCHANGED <<wire, oob, sent, menu, eof, codecVars, packets, req, was, bps, intr, lastbreak,
                   res, exitcode, targetVars>>
    /\ UNCHANGED callVars

\* The longest run of UPDI instructions a failing link still carries.
MaxLinkBudget == 3

\* The serial link goes bad: after k more instructions an echo is not received.
LinkFault ==
    /\ pc # "done"
    /\ link = -1
    /\ \E k \in 0..MaxLinkBudget : link' = k
    /\ UNCHANGED <<wire, oob, sent, menu, eof, codecVars, serverVars, mem, halted, calls, updi, events>>
    /\ UNCHANGED callVars

\* The serial link is sound again.
LinkRestored ==
    /\ pc # "done"
    /\ link # -1
    /\ link' = -1
    /\ UNCHANGED <<wire, oob, sent, menu, eof, codecVars, serverVars, mem, halted, calls, updi, events>>
    /\ UNCHANGED callVars

\* The running CPU stops on its own, at a breakpoint: the cause register holds the trap.
TargetHalt ==
    /\ ~halted
    /\ halted' = TRUE
    /\ \E cause \in {Traps.BP0, Traps.SWBP} :
          mem' = Poke(Poke(mem, OCD_CAUSE, cause % 256), OCD_CAUSE + 1, cause \div 256)
    /\ UNCHANGED <<wire, oob, sent, menu, eof, codecVars, serverVars, calls, updi, events, link>>
    /\ UNCHANGED callVars

-----------------------------------------------------------------------------
(* Sessions *)

\* A register window of zeroes.
ZeroWindow == [i \in 1..64 |-> 0]

\* What the client sees of a request answered with one packet.
Replied(data) == sent = <<<<PLUS>>, send_packet(data)>>

\* A client that asks for the halt reason, sends a packet holding '#' and breaks in.
InitIntr == InitServer({Str(<<"?">>), Str(<<"!">>), Str(<<"q","#">>), qSupported}, ZeroWindow)

NextIntr == ClientRequest \/ ClientBreak \/ ServeRecv \/ Dispatch

SpecIntr == InitIntr /\ [][NextIntr]_vars

\* C4: the packet loop runs the interrupt sequence (ACK, halt, poll_halted, S02)
\* only when the bytes it received hold a 0x03 that the client sent outside
\* every frame; a 0x03 inside a frame's payload causes no halt and no S02.
C4_BreakOnlyOutsideFrames == intr => lastbreak

\* The breakpoint addresses of the session, as the client writes them.
BpOperands ==
    {Str(<<"1","0","0">>), Str(<<"2","0","0">>), Str(<<"1","f","f","f","e">>),
     Str(<<"1","0","0","0","0","0","0">>), Str(<<"-","1">>), Str(<<"z","z">>)}

Z1Packet(a) == Str(<<"Z","1",",">>) \o a \o Str(<<",","2">>)

z1Packet(a) == Str(<<"z","1",",">>) \o a \o Str(<<",","2">>)

\* A client that sets and clears hardware breakpoints.
InitBP == InitServer({Z1Packet(a) : a \in BpOperands} \cup {z1Packet(a) : a \in BpOperands}, ZeroWindow)

NextBP == ClientRequest \/ ServeRecv \/ Dispatch

SpecBP == InitBP /\ [][NextBP]_vars

\* Slot i of the target (1 or 2) is armed at byte address a.
Armed(i, a) ==
    LET reg == IF i = 1 THEN OCD_BP0A ELSE OCD_BP1A
    IN  /\ Peek(mem, reg) + 256 * Peek(mem, reg + 1) + 65536 * Peek(mem, reg + 2) = 2 * (a \div 2)
        /\ BitAnd(Peek(mem, OCD_TRAPENH), i) # 0

\* C5: a Z1 with a parseable address replies OK and arms the lowest empty slot
\* iff one of the two slots is empty; with both occupied it replies E04 and
\* changes neither the slot table nor a target register.
C5_Allocation ==
    (req # <<>> /\ Kind(req) = "Z1" /\ BpAddr(req).ok) =>
        LET a == BpAddr(req).val
            lowest == IF was[1] = -1 THEN 1 ELSE 2
        IN  IF was[1] = -1 \/ was[2] = -1
            THEN Replied(OK) /\ bps = [was EXCEPT ![lowest] = a] /\ Armed(lowest, a)
            ELSE Replied(ERR_OUTOFHWBP) /\ bps = was /\ updi = <<>>

\* C6: a z1 with a parseable address replies OK and empties a slot iff an
\* occupied slot holds that address; otherwise it replies E05 and leaves the
\* slot table and the target alone.
C6_Release ==
    (req # <<>> /\ Kind(req) = "z1" /\ BpAddr(req).ok) =>
        LET a == BpAddr(req).val
            holds(i) == was[i] # -1 /\ was[i] = a
        IN  IF holds(1) \/ holds(2)
            THEN Replied(OK) /\ bps = [was EXCEPT ![IF holds(1) THEN 1 ELSE 2] = -1]
            ELSE Replied(ERR_NOSUCHBP) /\ bps = was /\ updi = <<>>

\* The memory reads of the session, at the edges of the code and data spaces.
MemOperands ==
    {Str(<<"0",",","2">>), Str(<<"1","f","f","f","f","f",",","1">>),
     Str(<<"2","0","0","0","0","0",",","1","0">>), Str(<<"7","f","f","f","f","f",",","1","0">>),
     Str(<<"8","0","0","0","0","0",",","2">>), Str(<<"8","0","0","f","8","8",",","2">>),
     Str(<<"8","0","f","f","f","f",",","1">>), Str(<<"8","1","0","0","0","0",",","1","0">>),
     Str(<<"-","1",",","1">>), Str(<<"0",",","0">>), Str(<<"1","0","0">>)}

mPacket(operand) == Str(<<"m">>) \o operand

\* A client that reads memory.
InitMem == InitServer({mPacket(o) : o \in MemOperands}, ZeroWindow)

NextMem == ClientRequest \/ ServeRecv \/ Dispatch

SpecMem == InitMem /\ [][NextMem]_vars

C7_WitnessGap ==
    /\ req = mPacket(Str(<<"7","f","f","f","f","f",",","1","0">>))
    /\ calls = <<>>
    /\ updi = <<>>
    /\ Replied(ERR_ADDROUTOFRANGE)

\* The register file of scenario S3: R0..R31 = 0x00..0x1f, SREG = 0x80, SP = 0x3ffe.
GprPattern == [i \in 1..32 |-> i - 1]

\* A register window holding GprPattern, SREG 0x80, SP 0x3ffe and pcreg in the PC register.
WindowWith(pcreg) ==
    PokeBurst(
        Poke(Poke(Poke(Poke(Poke(ZeroWindow,
            OCD_PC, pcreg % 256), OCD_PC + 1, pcreg \div 256),
            OCD_SP, 254), OCD_SP + 1, 63),
            OCD_SREG, 128),
        OCD_R0, GprPattern)

\* The values the PC register holds when the session starts.
PcRegisters == {0, 1, 292, 65535}

\* The 39 bytes of a register file whose last four bytes are given.
RegisterFile(pc0, pc1, pc2, pad) == GprPattern \o <<128, 254, 63, pc0, pc1, pc2, pad>>

GPacket(operand) == Str(<<"G">>) \o operand

\* The G operands of the session: byte addresses 0x000246 and 0x03fffe, the
\* same with every register byte 0xff, 38 bytes, and no hex at all.
GOperands ==
    {BytesHex(RegisterFile(70, 2, 0, 0)), BytesHex(RegisterFile(254, 255, 3, 0)),
     BytesHex([i \in 1..39 |-> 255]),
     BytesHex(SubSeq(RegisterFile(70, 2, 0, 0), 1, 38)), Str(<<"x","y">>)}

\* A client that reads and writes the register file.
InitReg ==
    \E pcreg \in PcRegisters :
        InitServer({Str(<<"g">>)} \cup {GPacket(o) : o \in GOperands}, WindowWith(pcreg))

NextReg == ClientRequest \/ ServeRecv \/ Dispatch

SpecReg == InitReg /\ [][NextReg]_vars

\* The word at a register of the window.
Word(reg) == Peek(mem, reg) + 256 * Peek(mem, reg + 1)

\* C8: whatever the registers hold, the reply to g is 78 lowercase hex
\* characters: the 32 GPRs, SREG, SP little-endian, the byte address of the PC
\* (the word PC without its bias of one, doubled) as 3 bytes little-endian,
\* and a zero byte.
C8_ReplyFormat ==
    (req # <<>> /\ Kind(req) = "g") =>
        LET pcbyte == ((Word(OCD_PC) - 1) * 2) % 16777216
            payload == BytesHex(PeekBurst(mem, OCD_R0, 32)
                         \o <<Peek(mem, OCD_SREG), Peek(mem, OCD_SP), Peek(mem, OCD_SP + 1),
                              pcbyte % 256, (pcbyte \div 256) % 256, pcbyte \div 65536, 0>>)
        IN  /\ Len(payload) = 78
            /\ \A i \in 1..78 : \E d \in 1..16 : payload[i] = HexDigits[d]
            /\ Replied(payload)

\* The registers after G <hex>, wordpc being what the PC register is to hold.
GWrites(data, wordpc) ==
    /\ Replied(OK)
    /\ PeekBurst(mem, OCD_R0, 32) = SubSeq(data, 1, 32)
    /\ Peek(mem, OCD_SREG) = data[33]
    /\ Word(OCD_SP) = data[34] + 256 * data[35]
    /\ \E i \in 1..Len(updi) : updi[i] = <<"sts", OCD_PC, wordpc, WIDTH_WORD>>

\* C9 as stated: a G of exactly 39 bytes writes R0..R31, SREG, SP and the
\* byte-address PC shifted right by one, and replies OK; any other operand is
\* answered E01 and writes no register.
C9_WritesShiftedPc ==
    (req # <<>> /\ Kind(req) = "G") =>
        LET data == decode_hex_array(From(req, 1))
        IN  IF Len(data) = 39
            THEN GWrites(data, (data[36] + 256 * data[37] + 65536 * data[38]) \div 2)
            ELSE Replied(ERR_INVALIDARGS) /\ updi = <<>>

\* C9 as amended: the PC written is the byte address shifted right by one and
\* truncated to 16 bits.
C9_WritesTruncatedPc ==
    (req # <<>> /\ Kind(req) = "G") =>
        LET data == decode_hex_array(From(req, 1))
        IN  IF Len(data) = 39
            THEN GWrites(data, ((data[36] + 256 * data[37] + 65536 * data[38]) \div 2) % 65536)
            ELSE Replied(ERR_INVALIDARGS) /\ updi = <<>>

\* A register file with byte address 0x03fffe has been written: the PC
\* register was given 0xffff.
C9_Witness ==
    /\ req = GPacket(BytesHex(RegisterFile(254, 255, 3, 0)))
    /\ Replied(OK)
    /\ \E i \in 1..Len(updi) : updi[i] = <<"sts", OCD_PC, 65535, WIDTH_WORD>>
    /\ Word(OCD_SP) = 16382

\* A G of 38 bytes has been refused.
C9_WitnessShort ==
    /\ req = GPacket(BytesHex(SubSeq(RegisterFile(70, 2, 0, 0), 1, 38)))
    /\ Replied(ERR_INVALIDARGS)
    /\ updi = <<>>

cPacket == Str(<<"c">>)

\* A client that lets the target run, may break in, and asks for the halt reason.
InitCont == InitServer({cPacket, Str(<<"?">>)}, ZeroWindow)

NextCont ==
    ClientRequest \/ ClientBreak \/ ServeRecv \/ Dispatch \/ CCheck \/ CRecv \/ TargetHalt

\* The continue loop is a busy loop of a running process: the is_halted test
\* and the recv under its timeout are each taken once the server is at them.
\* Client and target are free to do nothing.
SpecCont ==
    /\ InitCont
    /\ [][NextCont]_vars
    /\ WF_vars(CCheck) /\ WF_vars(CRecv)

\* The last thing sent is the packet data.
LastSent(data) == sent # <<>> /\ sent[Len(sent)] = send_packet(data)

\* C10: in the continue loop the server attempts a recv only after an
\* is_halted test that found the CPU running, and once the target has halted
\* the server eventually sends S05 and is back in the packet loop, unless a
\* break of the client made it send S02.
C10_HaltObserved ==
    /\ [][(pc # "c_recv" /\ pc' = "c_recv") =>
            (pc = "c_check" /\ is_halted(Machine(bps, mem, halted)).val = 0)]_vars
    /\ (pc \in {"c_check", "c_recv"} /\ halted)
          ~> (pc = "recv" /\ req = cPacket
              /\ (LastSent(SIGTRAP) \/ (LastSent(SIGINT) /\ intr)))

\* The target halted at a breakpoint while the client was silent; the server
\* has sent S05 and waits in the packet loop.
C10_Witness ==
    /\ pc = "recv" /\ req = cPacket
    /\ sent = <<<<PLUS>>, send_packet(SIGTRAP)>>
    /\ ~intr /\ wire = <<>>
    /\ halted /\ Word(OCD_CAUSE) = Traps.BP0

\* What the interrupt sequence does, in the order it does it.
InterruptEvents ==
    << <<"send", <<PLUS>>>>,
       <<"stcs", ASI_OCD_CTRLA, ASI_OCD_STOP, 0>>,
       <<"ldcs", ASI_OCD_STATUS, 0, 0>>,
       <<"send", send_packet(SIGINT)>> >>

\* C11: when the recv of the continue loop returns a 0x03 byte the server
\* sends '+', writes the stop request, polls the status until it reads the CPU
\* stopped, sends S02 and is back in the packet loop, in that order; it sends
\* no S05 for that c.
C11_Cancel ==
    [][(pc = "c_recv" /\ wire # <<>> /\ Head(wire) = ETX /\ wire' = Tail(wire)) =>
          /\ events' = InterruptEvents
          /\ halted'
          /\ pc' \in {"recv", "dispatch"}
          /\ req' = cPacket
          /\ sent' = <<<<PLUS>>, <<PLUS>>, send_packet(SIGINT)>>]_vars

\* The client broke in while the target ran: the CPU was stopped by the request
\* (no trap is recorded as the cause) and S02 was the answer to c.
C11_Witness ==
    /\ pc = "recv" /\ req = cPacket
    /\ intr /\ lastbreak
    /\ events = InterruptEvents
    /\ sent = <<<<PLUS>>, <<PLUS>>, send_packet(SIGINT)>>
    /\ halted /\ Word(OCD_CAUSE) = 0

DPacket == Str(<<"D">>)

\* A client that asks for the halt reason, steps, sets breakpoints, one of them
\* at an address set_bp refuses, detaches, or just closes the connection.
InitExit ==
    InitServer({Str(<<"?">>), Str(<<"s">>), DPacket,
                Z1Packet(Str(<<"1","0","0">>)), Z1Packet(Str(<<"-","1">>))}, ZeroWindow)

NextExit == ClientRequest \/ ClientClose \/ ServeRecv \/ Dispatch \/ Finally \/ MainExit

\* serve and main are code of a running process: a recv that has nothing to
\* wait for returns, and the finally clause and the except clauses of main are
\* run once the process is at them.  The client is free to do nothing.
SpecExit ==
    /\ InitExit
    /\ [][NextExit]_vars
    /\ WF_vars(wire = <<>> /\ ServeRecv) /\ WF_vars(Finally) /\ WF_vars(MainExit)

\* serve has left the packet loop, the OCD is detached (UPDI disabled, port
\* closed) and both sockets are closed.
SessionClosed ==
    /\ pc \in {"main", "done"}
    /\ res = [uart |-> "closed", client |-> "closed", socket |-> "closed"]

\* C12: once the client has disconnected and recv returns no bytes, once a D
\* packet is dispatched, or once a fatal error is raised, the server eventually
\* leaves the packet loop, detaches the OCD and closes both sockets.
C12_SessionExit ==
    ((eof /\ wire = <<>> /\ pc = "recv") \/ pc = "finally") ~> SessionClosed

\* A client that asks for the halt reason, steps, sets a breakpoint or
\* detaches, on a serial link that may fail and recover at any time, with a
\* user who may press Ctrl-C.
InitFault ==
    InitServer({Str(<<"?">>), Str(<<"s">>), Z1Packet(Str(<<"1","0","0">>)), DPacket}, ZeroWindow)

NextFault ==
    \/ ClientRequest \/ ServeRecv \/ Dispatch
    \/ LinkFault \/ LinkRestored \/ CtrlC
    \/ Finally \/ MainExit

\* The finally clause and the except clauses of main are run once the process is at them.
SpecFault ==
    /\ InitFault
    /\ [][NextFault]_vars
    /\ WF_vars(Finally) /\ WF_vars(MainExit)

\* The UPDI-disable instruction of disconnect.
Updidis == <<"stcs", UPDI_CTRLB, UPDI_CTRLB_UPDIDIS, 0>>

\* data is a packet frame.
IsFrame(data) == data # <<>> /\ data[1] = DOLLAR

C20_PortReleased == pc = "done" => res.uart = "closed"

\* s is a number written in hexadecimal digits.
IsHex(s) == s # <<>> /\ \A i \in 1..Len(s) : HexVal(s[i]) >= 0

\* The fields of an operand list: exactly n of them, each a hexadecimal number.
HexFields(s, n) ==
    LET fields == Split(s, COMMA)
    IN  Len(fields) = n /\ \A i \in 1..n : IsHex(fields[i])

\* The data of M: two hexadecimal digits for each byte of the length given.
HexData(s, length) ==
    /\ IsHex(length)
    /\ Len(s) = 2 * IntBase16(length).val
    /\ \A i \in 1..Len(s) : HexVal(s[i]) >= 0

\* The arguments of an m, M, G, Z1 or z1 request are as the protocol writes
\* them: m addr,length; M addr,length:XX...; G and 39 bytes in hexadecimal;
\* Z1,addr,kind and z1,addr,kind.
WellFormedArgs(packet) ==
    CASE Kind(packet) = "m" -> HexFields(From(packet, 1), 2)
      [] Kind(packet) = "M" ->
            LET cmd == Split(From(packet, 1), COLON)
            IN  /\ Len(cmd) = 2
                /\ HexFields(cmd[1], 2)
                /\ HexData(cmd[2], Split(cmd[1], COMMA)[2])
      [] Kind(packet) = "G" -> Len(packet) = 79 /\ IsHex(From(packet, 1))
      [] Kind(packet) \in {"Z1", "z1"} ->
            /\ Len(packet) > 3 /\ packet[3] = COMMA
            /\ HexFields(From(packet, 3), 2)
      [] OTHER -> TRUE

\* The requests of a client that gets its arguments wrong: letters that are no
\* digits, a sign, a field too few or too many, data shorter or longer than
\* announced; and three requests that are as they should be.
ArgRequests ==
    {mPacket(Str(<<"z","z",",","1">>)), mPacket(Str(<<"1","0","0">>)),
     mPacket(Str(<<"0",",","1",",","2">>)), mPacket(Str(<<"0",",","2">>)),
     Str(<<"M","8","0","0","0","0","0",",","1">>),
     Str(<<"M","8","0","0","0","0","0",",","2",":","0","0">>),
     Str(<<"M","8","0","0","0","0","0",",","1",":","z","z">>),
     Str(<<"M","8","0","0","0","0","0",",","1",":","0","0">>),
     GPacket(Str(<<"x","y">>)),
     GPacket(BytesHex(SubSeq(RegisterFile(70, 2, 0, 0), 1, 38))),
     GPacket(BytesHex(RegisterFile(70, 2, 0, 0)) \o Str(<<"0">>)),
     Z1Packet(Str(<<"z","z">>)), Z1Packet(Str(<<"-","1">>)), Z1Packet(Str(<<"1","0","0">>)),
     Str(<<"Z","1",",","1","0","0">>),
     z1Packet(Str(<<"z","z">>)), Str(<<"z","1",",","1","0","0">>)}

InitArgs == InitServer(ArgRequests, WindowWith(292))

NextArgs == ClientRequest \/ ServeRecv \/ Dispatch

SpecArgs == InitArgs /\ [][NextArgs]_vars

\* C14: an m, M, G, Z1 or z1 request whose arguments are malformed is answered
\* E01 with no UPDI instruction issued and the slot table as it was, and the
\* server goes on with the packet loop.
C14_ArgumentErrors ==
    (req # <<>> /\ Kind(req) \in {"m", "M", "G", "Z1", "z1"} /\ ~WellFormedArgs(req)) =>
        /\ Replied(ERR_INVALIDARGS)
        /\ updi = <<>>
        /\ bps = was
        /\ pc \in {"recv", "dispatch"}

\* qRcmd with a monitor command in hexadecimal.
MonitorPacket(cmd) == Str(<<"q","R","c","m","d",",">>) \o BytesHex(cmd)

vRunPacket == Str(<<"v","R","u","n",";">>)

\* A client that restarts the program and uses the monitor commands.
InitCtl ==
    InitServer({vRunPacket, Str(<<"R","0","0">>), Str(<<"r">>), Str(<<"?">>),
                MonitorPacket(Str(<<"s","t","e","p">>)),
                MonitorPacket(Str(<<"r","e","s","e","t">>)),
                MonitorPacket(Str(<<"i","n","t","t","r","a","p"," ","o","n">>))}, ZeroWindow)

NextCtl == ClientRequest \/ ServeRecv \/ Dispatch

SpecCtl == InitCtl /\ [][NextCtl]_vars

\* The instructions of reset: the reset request, its release, and the poll of
\* the system status that reads the reset flag clear.
ResetEvents ==
    << <<"stcs", ASI_RESET_REQ, ASI_RSTREQ_RESET, 0>>,
       <<"stcs", ASI_RESET_REQ, ASI_RSTREQ_RUN, 0>>,
       <<"ldcs", ASI_SYS_STATUS, 0, 0>> >>

\* C15 as stated: each of vRun, R and r resets the target and then replies S05.
C15_ResetReplies ==
    (req # <<>> /\ Kind(req) \in {"vRun", "R"}) =>
        events = << <<"send", <<PLUS>>>> >> \o ResetEvents \o << <<"send", send_packet(SIGTRAP)>> >>

\* C15 as amended: vRun resets the target and then replies S05; R and r reset
\* the target and send no reply.
C15_ResetRepliesToRun ==
    (req # <<>> /\ Kind(req) \in {"vRun", "R"}) =>
        events = << <<"send", <<PLUS>>>> >> \o ResetEvents
                 \o (IF Kind(req) = "vRun" THEN << <<"send", send_packet(SIGTRAP)>> >> ELSE <<>>)

\* R was answered with its acknowledgement alone, after the reset.
C15_Witness ==
    /\ req = Str(<<"R","0","0">>)
    /\ sent = <<<<PLUS>>>>
    /\ updi = ResetEvents
    /\ pc = "recv"

\* vRun was answered S05 after the reset.
C15_WitnessRun ==
    /\ req = vRunPacket
    /\ Replied(SIGTRAP)
    /\ updi = ResetEvents

\* C18: qRcmd with the hex of "step" reads TRAPENL, writes it back with the
\* STEP bit set, writes the run request and polls nothing, replies with the
\* hex of its confirmation text, and the server goes on with the packet loop.
C18_MonitorStep ==
    (req = MonitorPacket(Str(<<"s","t","e","p">>))) =>
        /\ \E orig \in 0..255 :
              events = << <<"send", <<PLUS>>>>,
                          <<"lds", OCD_TRAPENL, 0, WIDTH_BYTE>>,
                          <<"sts", OCD_TRAPENL, BitOr(orig, Traps.STEP), WIDTH_BYTE>>,
                          <<"stcs", ASI_OCD_CTRLA, ASI_OCD_RUN, 0>>,
                          <<"send", send_packet(BytesHex(LegacyStepping))>> >>
        /\ BitAnd(Peek(mem, OCD_TRAPENL), Traps.STEP) # 0
        /\ pc \in {"recv", "dispatch"}

\* The monitor step has been run and answered; the STEP trap is left enabled.
C18_Witness ==
    /\ req = MonitorPacket(Str(<<"s","t","e","p">>))
    /\ Replied(BytesHex(LegacyStepping))
    /\ Peek(mem, OCD_TRAPENL) = BitOr(Traps.HWBP, Traps.STEP)
    /\ Len(updi) = 3
    /\ pc = "recv"

\* A client that sends its requests without waiting for the answers.
InitPipe == InitServer({Str(<<"?">>), Str(<<"!">>), Str(<<"k">>), Str(<<"z","0">>)}, ZeroWindow)

NextPipe == ClientPipeline \/ ServeRecv \/ Dispatch

SpecPipe == InitPipe /\ [][NextPipe]_vars

\* The requests received or sent and not yet dispatched, in the order in which
\* the server will meet them.
Undispatched == packets \o process_bytes(pendingpacket, wire).out

\* C16: every packet is acknowledged with '+' before its reply frame is sent,
\* the packets are acknowledged and answered in the order received (what is
\* still to be dispatched is always the rest of what the client sent, and the
\* dispatch takes the first of it and leaves the others), and ? yields exactly
\* '+' and then $S05#b8.
C16_AckThenReply ==
    /\ [](\E k \in 0..Len(frames) : Undispatched = SubSeq(frames, k + 1, Len(frames)))
    /\ [][pc = "dispatch" =>
            /\ req' = Head(packets)
            /\ packets' = Tail(packets)
            /\ <<pendingpacket, wire>>' = <<pendingpacket, wire>>
            /\ sent'[1] = <<PLUS>>
            /\ \A i \in 2..Len(sent') : IsFrame(sent'[i])
            /\ events' = [i \in 1..Len(sent') |-> <<"send", sent'[i]>>]]_vars
    /\ [](req = Str(<<"?">>) => sent = <<<<PLUS>>, Str(<<"$","S","0","5","#","b","8">>)>>)

\* Two requests arrived in one recv; the second, ?, has just been answered
\* after the first, !.
C16_Witness ==
    /\ frames = <<Str(<<"!">>), Str(<<"?">>)>>
    /\ decoded = frames
    /\ req = Str(<<"?">>)
    /\ sent = <<<<PLUS>>, Str(<<"$","S","0","5","#","b","8">>)>>
    /\ packets = <<>>

\* The memory writes of the session: at the edges of the data space, into the
\* register window (0x800f94), in the code space, and malformed ones.
WriteOperands ==
    {Str(<<"7","f","f","f","f","f",",","1",":","0","0">>),
     Str(<<"8","0","0","0","0","0",",","1",":","a","a">>),
     Str(<<"8","0","0","f","9","4",",","2",":","1","2","3","4">>),
     Str(<<"8","0","f","f","f","f",",","1",":","5","5">>),
     Str(<<"8","1","0","0","0","0",",","1",":","0","0">>),
     Str(<<"0",",","1",":","0","0">>),
     Str(<<"-","1",",","1",":","0","0">>),
     Str(<<"1","0","0","0","f","9","4",",","2",":","1","2","3","4">>),
     Str(<<"8","0","0","f","9","4",",","2",":","1","2">>),
     Str(<<"8","0","0","f","9","4",",","0",":">>),
     Str(<<"8","0","0","f","9","5",":","7","7">>)}

MPacket(operand) == Str(<<"M">>) \o operand

\* A client that writes memory.
InitWrite == InitServer({MPacket(o) : o \in WriteOperands}, ZeroWindow)

NextWrite == ClientRequest \/ ServeRecv \/ Dispatch

SpecWrite == InitWrite /\ [][NextWrite]_vars

\* The address operand of an M packet, as the handler parses it.
WriteAddr(packet) == parse_addr(Split(From(packet, 1), COLON)[1])

\* The M packet names an address of the data range 0x800000 <= addr < 0x810000.
InWriteRange(packet) == WriteAddr(packet).ok /\ InDataSpace(WriteAddr(packet).addr)

\* C19: a dispatch of an M request issues a UPDI instruction or changes target
\* memory only when its address is in 0x800000 <= addr < 0x810000, and the
\* store then goes to addr - 0x800000; for an address outside that range no
\* UPDI instruction is issued and memory is unchanged.
C19_WriteConfined ==
    [][(pc = "dispatch" /\ Kind(Head(packets)) = "M") =>
          IF InWriteRange(Head(packets))
          THEN updi' = <<>> \/ updi'[1] = <<"st_ptr", WriteAddr(Head(packets)).addr - 8388608, 0, 2>>
          ELSE updi' = <<>> /\ mem' = mem]_vars

\* Two bytes have been stored in the register window at data address 0xf94.
C19_Witness ==
    /\ req = MPacket(Str(<<"8","0","0","f","9","4",",","2",":","1","2","3","4">>))
    /\ updi = << <<"st_ptr", 3988, 0, 2>>, <<"repeat", 2, 0, 0>>, <<"st", 2, 0, 0>> >>
    /\ Peek(mem, 3988) = 18 /\ Peek(mem, 3989) = 52
    /\ Replied(OK)

\* A write one past the end of the data space has been refused.
C19_WitnessOutside ==
    /\ req = MPacket(Str(<<"8","1","0","0","0","0",",","1",":","0","0">>))
    /\ updi = <<>>
    /\ calls = <<<<"write_data", 65536, 1>>>>
    /\ sent = <<<<PLUS>>, send_packet(ERR_ADDROUTOFRANGE), send_packet(ERR_INVALIDARGS)>>

\* Register windows a target may hold when the bridge is started.
BootWindows == {ZeroWindow, [i \in 1..64 |-> IF i \in {9, 10} THEN 255 ELSE 0], WindowWith(292)}

\* The process at the first statement of serve: the serial port is not yet
\* opened (connect opens it), the socket listens, no connection is accepted;
\* the CPU may be running or stopped.
InitBoot ==
    /\ IdleCalls
    /\ link = -1
    /\ eof = FALSE
    /\ res = [uart |-> "none", client |-> "none", socket |-> "open"]
    /\ exc = ""
    /\ exitcode = -1
    /\ events = <<>>
    /\ wire = <<>>
    /\ oob = <<>>
    /\ sent = <<>>
    /\ menu = {Str(<<"?">>), Str(<<"s">>), Z1Packet(Str(<<"1","0","0">>)), DPacket}
    /\ pendingpacket = <<>>
    /\ decoded = <<>>
    /\ ncalls = 0
    /\ frames = <<>>
    /\ tampered = FALSE
    /\ pc = "attach"
    /\ packets = <<>>
    /\ req = <<>>
    /\ was = <<-1, -1>>
    /\ bps = <<-1, -1>>
    /\ intr = FALSE
    /\ lastbreak = FALSE
    /\ mem \in BootWindows
    /\ halted \in BOOLEAN
    /\ calls = <<>>
    /\ updi = <<>>

NextBoot ==
    \/ Attach \/ Halt \/ SetTraps \/ Accept
    \/ ClientRequest \/ ServeRecv \/ Dispatch \/ Finally \/ MainExit

\* The statements of the prologue are run one after the other.
SpecBoot ==
    /\ InitBoot
    /\ [][NextBoot]_vars
    /\ WF_vars(Attach) /\ WF_vars(Halt) /\ WF_vars(SetTraps)

Prologue == {"attach", "halt", "set_traps", "accept"}

-----------------------------------------------------------------------------
(* UpdiRev3 on the serial port (updirev3.py), byte by byte *)

\* uart.log holds the calls made on the serial port by the last driver method,
\* a read with the bytes it returned.  uart.buf is the input buffer.  The UPDI
\* line is one wire: what is written is received back (the echo), followed by
\* what the target answers.  uart.script says, for each write still to come,
\* how many bytes of its echo arrive and which bytes the target answers when
\* the echo is whole; when the script is used up nothing arrives any more.
\* A read returns what has arrived, at most the number of bytes asked for; it
\* returns fewer when its timeout ends first.
Arrival(data, answer) ==
    IF answer.echo >= Len(data) THEN data \o answer.resp ELSE SubSeq(data, 1, answer.echo)

reset_input_buffer(u) == [u EXCEPT !.log = Append(@, <<"reset_input_buffer">>), !.buf = <<>>]

write(u, data) ==
    [u EXCEPT !.log = Append(@, <<"write", data>>),
              !.buf = IF u.script = <<>> THEN @ ELSE @ \o Arrival(data, Head(u.script)),
              !.script = IF @ = <<>> THEN @ ELSE Tail(@)]

flush(u) == [u EXCEPT !.log = Append(@, <<"flush">>)]

read(u, n) ==
    LET got == SubSeq(u.buf, 1, Min(n, Len(u.buf)))
    IN  [u |-> [u EXCEPT !.log = Append(@, <<"read", n, got>>),
                         !.buf = SubSeq(@, Len(got) + 1, Len(@))],
         val |-> got]

SYNC == Ord("U")

\* UpdiRev3.command that leaves in the input buffer what it holds.
uart_command_noreset(u, txdata, n_expected, skip_sync) ==
    LET frame == IF skip_sync THEN txdata ELSE <<SYNC>> \o txdata
        n_tx == Len(frame)
        echo == read(flush(write(u, frame)), n_tx)
        buffer == read(echo.u, n_expected)
    IN  IF Len(echo.val) # n_tx THEN [u |-> echo.u, succ |-> FALSE, val |-> Str(<<"E">>)]
        ELSE IF n_expected = 0 THEN [u |-> echo.u, succ |-> TRUE, val |-> <<>>]
        ELSE IF Len(buffer.val) # n_expected THEN [u |-> buffer.u, succ |-> FALSE, val |-> Str(<<"R">>)]
        ELSE [u |-> buffer.u, succ |-> TRUE, val |-> buffer.val]

\* UpdiRev3.command(txdata, n_expected, skip_sync): (succ, val).
uart_command(u, txdata, n_expected, skip_sync) ==
    LET frame == IF skip_sync THEN txdata ELSE <<SYNC>> \o txdata
        n_tx == Len(frame)
        echo == read(flush(write(reset_input_buffer(u), frame)), n_tx)
        buffer == read(echo.u, n_expected)
    IN  IF Len(echo.val) # n_tx THEN [u |-> echo.u, succ |-> FALSE, val |-> Str(<<"E">>)]
        ELSE IF n_expected = 0 THEN [u |-> echo.u, succ |-> TRUE, val |-> <<>>]
        ELSE IF Len(buffer.val) # n_expected THEN [u |-> buffer.u, succ |-> FALSE, val |-> Str(<<"R">>)]
        ELSE [u |-> buffer.u, succ |-> TRUE, val |-> buffer.val]

\* The acknowledgement of the target.
ACK == 64

\* The frame of the address phase of lds, sts or st ptr: the opcode, then the
\* address in addr_width + 1 bytes, low byte first.
AddressFrame(opcode, addr, addr_width) ==
    IF addr_width = 0 THEN <<opcode, addr>>
    ELSE IF addr_width = 1 THEN <<BitOr(opcode, 4), addr % 256, addr \div 256>>
    ELSE <<BitOr(opcode, 8), addr % 256, (addr \div 256) % 256, addr \div 65536>>

AddressFits(addr, addr_width) ==
    \/ addr_width = 0 /\ 0 <= addr /\ addr <= 255
    \/ addr_width = 1 /\ 0 <= addr /\ addr <= 65535
    \/ addr_width = 2 /\ 0 <= addr /\ addr <= 16777215

DataFits(data, data_width) ==
    \/ data_width = 0 /\ 0 <= data /\ data <= 255
    \/ data_width = 1 /\ 0 <= data /\ data <= 65535

\* The call failed or its answer does not start with ACK.
NotAcked(c) == ~c.succ \/ c.val[1] # ACK

\* store_direct that goes on to the data phase whatever byte answered the address phase.
uart_store_direct_anyanswer(u, addr, data, addr_width, data_width) ==
    IF ~AddressFits(addr, addr_width) \/ ~DataFits(data, data_width)
    THEN [u |-> u, raised |-> "AssertionError"]
    ELSE LET a == uart_command(u, AddressFrame(64 + data_width, addr, addr_width), 1, FALSE)
             databytes == IF data_width = 0 THEN <<data>> ELSE <<data % 256, data \div 256>>
             d == uart_command(a.u, databytes, 1, TRUE)
         IN  IF ~a.succ THEN [u |-> a.u, raised |-> "UpdiException(sts)"]
             ELSE IF NotAcked(d) THEN [u |-> d.u, raised |-> "UpdiException(sts)"]
             ELSE [u |-> d.u, raised |-> ""]

\* UpdiRev3.store_direct(addr, data, addr_width, data_width)
uart_store_direct(u, addr, data, addr_width, data_width) ==
    IF ~AddressFits(addr, addr_width) \/ ~DataFits(data, data_width)
    THEN [u |-> u, raised |-> "AssertionError"]
    ELSE LET a == uart_command(u, AddressFrame(64 + data_width, addr, addr_width), 1, FALSE)
             databytes == IF data_width = 0 THEN <<data>> ELSE <<data % 256, data \div 256>>
             d == uart_command(a.u, databytes, 1, TRUE)
         IN  IF NotAcked(a) THEN [u |-> a.u, raised |-> "UpdiException(sts)"]
             ELSE IF NotAcked(d) THEN [u |-> d.u, raised |-> "UpdiException(sts)"]
             ELSE [u |-> d.u, raised |-> ""]

Called_(u, call) == [u EXCEPT !.log = Append(@, call)]

\* UpdiRev3.connect.  can_open: whether the serial port can be opened.  The
\* three bytes read after the first instruction are not looked at.
connect(u, can_open) ==
    IF ~can_open THEN [u |-> Called_(Called_(u, <<"dtr", FALSE>>), <<"open">>), raised |-> "SerialException"]
    ELSE LET opened == Called_(Called_(Called_(Called_(Called_(u,
                           <<"dtr", FALSE>>), <<"open">>), <<"dtr", TRUE>>), <<"dtr", FALSE>>), <<"send_break">>)
             first == read(flush(write(reset_input_buffer(opened), <<SYNC, 195, 8>>)), 3)
             buffer == read(flush(write(reset_input_buffer(first.u), <<SYNC, 128>>)), 3)
         IN  [u |-> buffer.u, raised |-> IF Len(buffer.val) # 3 THEN "UpdiException(ldcs)" ELSE ""]

\* UpdiRev3.resynchronize
resynchronize(u) ==
    LET buffer == read(flush(write(reset_input_buffer(Called_(u, <<"send_break">>)), <<SYNC, 129>>)), 3)
    IN  [u |-> buffer.u, raised |-> IF Len(buffer.val) # 3 THEN "UpdiException(ldcs)" ELSE ""]

KEY_OCD == Str(<<"O","C","D"," "," "," "," "," ">>)

Reverse(s) == [i \in 1..Len(s) |-> s[Len(s) + 1 - i]]

\* UpdiRev3.key
key(u, k) ==
    IF Len(k) # 8 THEN [u |-> u, raised |-> "AssertionError"]
    ELSE LET c == uart_command(u, <<224>> \o Reverse(k), 0, FALSE)
         IN  [u |-> c.u, raised |-> IF c.succ THEN "" ELSE "UpdiException(key)"]

\* UpdiRev3.store_csr
uart_store_csr(u, addr, value) ==
    IF ~(0 <= addr /\ addr <= 15) \/ ~(0 <= value /\ value <= 255) THEN [u |-> u, raised |-> "AssertionError"]
    ELSE LET c == uart_command(u, <<192 + addr, value>>, 0, FALSE)
         IN  [u |-> c.u, raised |-> IF c.succ THEN "" ELSE "UpdiException(stcs)"]

\* The rest of attach once the link is established.
Unlock(u) ==
    LET k == key(u, KEY_OCD)
    IN  IF k.raised # "" THEN k ELSE uart_store_csr(k.u, UPDI_CTRLA, UPDI_CTRLA_GTVAL_2CYCLES)

\* attach that connects once more after a resynchronization.
uart_attach_reconnect(u, can_open) ==
    LET c == connect(u, can_open)
        r == resynchronize(c.u)
        c2 == connect(r.u, can_open)
    IN  IF c.raised = "" THEN Unlock(c.u)
        ELSE IF c.raised # "UpdiException(ldcs)" THEN c
        ELSE IF r.raised # "" THEN r
        ELSE IF c2.raised # "" THEN c2
        ELSE Unlock(c2.u)

\* OcdRev1.attach
uart_attach(u, can_open) ==
    LET c == connect(u, can_open)
        r == resynchronize(c.u)
    IN  IF c.raised = "" THEN Unlock(c.u)
        ELSE IF c.raised # "UpdiException(ldcs)" THEN c
        ELSE IF r.raised # "" THEN r
        ELSE Unlock(r.u)

\* An echo count that stands for the whole of any frame.
WholeEcho == 16

\* What the target may do with a written frame: echo none, one or all of its
\* bytes, and answer nothing, ACK, another byte, or two bytes.
Answers ==
    {[echo |-> e, resp |-> r] : e \in {0, 1, WholeEcho}, r \in {<<>>, <<ACK>>, <<0>>, <<ACK, 7>>}}

\* The script holds at most this many answers.
MaxAnswers == 2

\* What is not the serial port or the result of a call, at rest.
IdleBelow ==
    /\ IdleServer
    /\ mem = <<>> /\ halted = TRUE /\ calls = <<>> /\ updi = <<>> /\ events = <<>> /\ link = -1
    /\ wire = <<>> /\ pendingpacket = <<>> /\ decoded = <<>> /\ ncalls = 0 /\ frames = <<>>
    /\ tampered = FALSE

belowVars ==
    <<wire, oob, sent, menu, pendingpacket, decoded, ncalls, frames, tampered, pc, packets, req,
      was, bps, mem, halted, calls, updi, intr, lastbreak, events, link, eof, res, exc, exitcode>>

\* A driver on an open port.
InitWire ==
    /\ IdleBelow
    /\ uart = [log |-> <<>>, buf |-> <<>>, script |-> <<>>]
    /\ ret = [method |-> "", args |-> <<>>, val |-> <<>>, raised |-> ""]

\* The port when a method is called: the log starts anew, a stale byte may
\* have arrived since the last call, and the target and the line will behave
\* as the script sc says.
Port(sc, stale) == [log |-> <<>>, buf |-> uart.buf \o stale, script |-> sc]

\* The i-th answer of the script, none when the script is shorter.
Answer(sc, i) == IF Len(sc) >= i THEN sc[i] ELSE [echo |-> 0, resp |-> <<>>]

\* No call is being looked at.
NoCall == [method |-> "", args |-> <<>>, val |-> <<>>, raised |-> ""]

\* The caller has taken the result of the call; the answers the call did not
\* use are not waited for.
Return ==
    /\ ret.method # ""
    /\ ret' = NoCall
    /\ uart' = [uart EXCEPT !.log = <<>>, !.script = <<>>]
    /\ UNCHANGED belowVars

\* One call of command.
Command ==
    /\ ret.method = ""
    /\ \E txdata \in {<<128>>, <<195, 8>>}, n_expected \in 0..2, skip_sync \in BOOLEAN,
          sc \in BoundedSeqs(Answers, MaxAnswers), stale \in {<<>>, <<ACK>>} :
         \E r \in {uart_command(Port(sc, stale), txdata, n_expected, skip_sync)} :
            /\ uart' = r.u
            /\ ret' = [method |-> "command",
                       args |-> <<txdata, n_expected, skip_sync, Answer(sc, 1), uart.buf \o stale>>,
                       val |-> <<r.succ, r.val>>, raised |-> ""]
    /\ UNCHANGED belowVars

\* One call of store_direct: a byte to TRAPENH with a 3-byte or a 2-byte
\* address, or a word to BP0A.
StoreDirect ==
    /\ ret.method = ""
    /\ \E a \in {<<OCD_TRAPENH, 3, 2, 0>>, <<OCD_TRAPENH, 3, 1, 0>>, <<OCD_BP0A, 8194, 2, 1>>},
          sc \in BoundedSeqs(Answers, MaxAnswers), stale \in {<<>>, <<ACK>>} :
         \E r \in {uart_store_direct(Port(sc, stale), a[1], a[2], a[3], a[4])} :
            /\ uart' = r.u
            /\ ret' = [method |-> "store_direct", args |-> a \o <<Answer(sc, 1), Answer(sc, 2)>>,
                       val |-> <<>>, raised |-> r.raised]
    /\ UNCHANGED belowVars

\* What the line may do with a frame during attach: nothing, the echo alone,
\* or the echo and one byte of answer.
AttachAnswers ==
    {[echo |-> 0, resp |-> <<>>], [echo |-> WholeEcho, resp |-> <<>>], [echo |-> WholeEcho, resp |-> <<48>>]}

\* attach writes at most this many frames.
MaxAttachWrites == 5

\* One call of attach on a closed port.
AttachCall ==
    /\ ret.method = ""
    /\ \E can_open \in BOOLEAN, sc \in [1..MaxAttachWrites -> AttachAnswers] :
         \E r \in {uart_attach([log |-> <<>>, buf |-> <<>>, script |-> sc], can_open)} :
            /\ uart' = r.u
            /\ ret' = [method |-> "attach", args |-> <<can_open, sc>>, val |-> <<>>, raised |-> r.raised]
    /\ UNCHANGED belowVars

NextWire == Command \/ StoreDirect \/ AttachCall \/ Return

SpecWire == InitWire /\ [][NextWire]_vars

\* C21: a call of command makes, in this order, one reset_input_buffer, one
\* write of the frame (0x55 first unless skip_sync), one flush, one read of
\* N_tx bytes and, only when that read returned N_tx bytes and N_rx > 0, one
\* read of N_rx bytes; it makes no other call, so the frame is written once.
\* It succeeds exactly when the whole echo arrived and, for N_rx > 0, N_rx
\* bytes of the answer arrived; it then returns those bytes.
C21_Framing ==
    ret.method = "command" =>
        LET txdata == ret.args[1]
            n_rx == ret.args[2]
            answer == ret.args[4]
            frame == IF ret.args[3] THEN txdata ELSE <<85>> \o txdata
            n_tx == Len(frame)
            whole == answer.echo >= n_tx
            log == uart.log
        IN  /\ Len(log) = IF whole /\ n_rx > 0 THEN 5 ELSE 4
            /\ log[1] = <<"reset_input_buffer">>
            /\ log[2] = <<"write", frame>>
            /\ log[3] = <<"flush">>
            /\ log[4] = <<"read", n_tx, IF whole THEN frame ELSE SubSeq(frame, 1, answer.echo)>>
            /\ Len(log) = 5 =>
                  log[5] = <<"read", n_rx, SubSeq(answer.resp, 1, Min(n_rx, Len(answer.resp)))>>
            /\ ret.val[1] = (whole /\ Len(answer.resp) >= n_rx)
            /\ ret.val[1] => ret.val[2] = SubSeq(answer.resp, 1, n_rx)

\* ldcs CTRLA was answered with one byte after a stale byte had been in the
\* input buffer: the call returned the answer.
C21_Witness ==
    /\ ret.method = "command"
    /\ ret.args = <<<<128>>, 1, FALSE, [echo |-> WholeEcho, resp |-> <<0>>], <<ACK>>>>
    /\ ret.val = <<TRUE, <<0>>>>
    /\ Len(uart.log) = 5

\* The echo of a frame stopped after its first byte: the call failed without a
\* second read.
C21_WitnessShortEcho ==
    /\ ret.method = "command"
    /\ ret.args[1] = <<195, 8>> /\ ret.args[4].echo = 1 /\ ~ret.args[3]
    /\ ret.val = <<FALSE, Str(<<"E">>)>>
    /\ Len(uart.log) = 4

\* The write calls of the log, in order.
Writes == SelectSeq(uart.log, LAMBDA c : c[1] = "write")

\* The answer lets a frame of n bytes through whole and starts with ACK.
Acks(answer, n) == answer.echo >= n /\ answer.resp # <<>> /\ answer.resp[1] = ACK

\* C22: store_direct writes the address frame with the sync byte; it writes
\* the data bytes, without a sync byte, only when the address phase was
\* answered with 0x40, and otherwise writes nothing more and raises
\* UpdiException("sts"); it returns normally exactly when both phases were
\* answered with 0x40.
C22_TwoPhase ==
    ret.method = "store_direct" =>
        LET addr == ret.args[1]
            data == ret.args[2]
            databytes == IF ret.args[4] = 0 THEN <<data>> ELSE <<data % 256, data \div 256>>
            opcode == 64 + ret.args[4] + (IF ret.args[3] = 2 THEN 8 ELSE 4)
            addrbytes == IF ret.args[3] = 2 THEN <<addr % 256, (addr \div 256) % 256, addr \div 65536>>
                         ELSE <<addr % 256, addr \div 256>>
        IN  /\ Writes[1] = <<"write", <<85, opcode>> \o addrbytes>>
            /\ IF Acks(ret.args[5], 2 + Len(addrbytes))
               THEN Len(Writes) = 2 /\ Writes[2] = <<"write", databytes>>
               ELSE Len(Writes) = 1 /\ ret.raised = "UpdiException(sts)"
            /\ (ret.raised = "") = (Acks(ret.args[5], 2 + Len(addrbytes)) /\ Acks(ret.args[6], Len(databytes)))
            /\ ret.raised \in {"", "UpdiException(sts)"}

\* A word was stored: both phases were acknowledged.
C22_Witness ==
    /\ ret.method = "store_direct"
    /\ ret.args[1] = OCD_BP0A /\ ret.args[2] = 8194
    /\ ret.raised = ""
    /\ Writes = << <<"write", <<85, 73, 128, 15, 0>>>>, <<"write", <<2, 32>>>> >>

\* The address phase was answered with a byte that is not ACK: nothing more was written.
C22_WitnessNak ==
    /\ ret.method = "store_direct"
    /\ ret.args[5] = [echo |-> WholeEcho, resp |-> <<0>>]
    /\ ret.raised = "UpdiException(sts)"
    /\ Len(Writes) = 1

\* The frames of attach.
DisableContentionFrame == <<85, 195, 8>>
LdcsCtrlaFrame == <<85, 128>>
LdcsStatusbFrame == <<85, 129>>
KeyFrame == <<85, 224>> \o Str(<<" "," "," "," "," ","D","C","O">>)
GuardTimeFrame == <<85, 194, 6>>

\* The frames written, in order.
Written == [i \in 1..Len(Writes) |-> Writes[i][2]]

\* The number of times the port was opened, that is, connect was called.
Connects == Len(SelectSeq(uart.log, LAMBDA c : c[1] = "open"))

\* The answer returns a whole frame and one more byte.
Answered(answer) == answer.echo = WholeEcho /\ answer.resp # <<>>

\* C30 as stated: as C30_AttachSequence below, and connect is called a second
\* time when the first connect failed and resynchronize succeeded.
C30_AttachReconnects ==
    (ret.method = "attach" /\ ret.args[1]) =>
        LET sc == ret.args[2]
        IN  /\ (~Answered(sc[2]) /\ Answered(sc[3])) => Connects = 2
            /\ (~Answered(sc[2]) /\ ~Answered(sc[3])) =>
                  ret.raised = "UpdiException(ldcs)" /\ ~(\E i \in 1..Len(Written) : Written[i] = KeyFrame)

\* C30 as amended: attach calls connect once; when connect raises
\* UpdiException it calls resynchronize and does not connect again; only
\* after connect or resynchronize succeeded it sends key(OCD) and then stcs
\* CTRLA, GTVAL_2CYCLES; when neither succeeds no key is sent and the
\* failure is raised.  When the port cannot be opened nothing is written.
C30_AttachSequence ==
    ret.method = "attach" =>
        LET sc == ret.args[2]
            tail == IF ~Answered(sc[2]) THEN <<LdcsStatusbFrame>> ELSE <<>>
            n == 2 + Len(tail)
            linked == Answered(sc[2]) \/ Answered(sc[3])
            keyed == sc[n + 1].echo = WholeEcho
        IN  IF ~ret.args[1] THEN Written = <<>> /\ ret.raised = "SerialException" /\ Connects = 1
            ELSE /\ Connects = 1
                 /\ SubSeq(Written, 1, n) = <<DisableContentionFrame, LdcsCtrlaFrame>> \o tail
                 /\ IF ~linked THEN Len(Written) = n /\ ret.raised = "UpdiException(ldcs)"
                    ELSE IF ~keyed THEN Written[n + 1] = KeyFrame /\ Len(Written) = n + 1
                                        /\ ret.raised = "UpdiException(key)"
                    ELSE /\ SubSeq(Written, n + 1, n + 2) = <<KeyFrame, GuardTimeFrame>>
                         /\ Len(Written) = n + 2
                         /\ ret.raised = IF sc[n + 2].echo = WholeEcho THEN "" ELSE "UpdiException(stcs)"

\* connect failed, resynchronize succeeded, and attach went on to the key and
\* the guard time without connecting again.
C30_Witness ==
    /\ ret.method = "attach"
    /\ ret.raised = ""
    /\ Written = <<DisableContentionFrame, LdcsCtrlaFrame, LdcsStatusbFrame, KeyFrame, GuardTimeFrame>>
    /\ Connects = 1

\* Neither connect nor resynchronize succeeded.
C30_WitnessNoLink ==
    /\ ret.method = "attach"
    /\ ret.raised = "UpdiException(ldcs)"
    /\ Written = <<DisableContentionFrame, LdcsCtrlaFrame, LdcsStatusbFrame>>

\* Breakpoint addresses below and above 64 KiB and 128 KiB.
EncOperands ==
    {Str(<<"1","0","0">>),
     Str(<<"f","f","f","e">>),
     Str(<<"1","0","0","0","0">>),
     Str(<<"1","f","f","f","e">>),
     Str(<<"1","f","f","f","f">>),
     Str(<<"2","0","0","0","0">>),
     Str(<<"3","f","f","f","e">>)}

\* A client that sets and clears hardware breakpoints across the code space.
InitEnc == InitServer({Z1Packet(a) : a \in EncOperands} \cup {z1Packet(a) : a \in EncOperands}, ZeroWindow)

NextEnc == ClientRequest \/ ServeRecv \/ Dispatch

SpecEnc == InitEnc /\ [][NextEnc]_vars

\* The UPDI instruction was issued by the last step.
Issued(instr) == \E i \in 1..Len(updi) : updi[i] = instr

\* C24: a Z1 answered OK has written (word_addr << 1) & 0xFFFF, with
\* word_addr = addr >> 1, to the BPnA register of the slot it took, and bit 16
\* of the byte address, 0 or 1, to its BPnAT register.
C24_Encoding ==
    (req # <<>> /\ Kind(req) = "Z1" /\ BpAddr(req).ok /\ Replied(OK)) =>
        LET addr == BpAddr(req).val
            slot == IF was[1] < 0 THEN 0 ELSE 1
            low == ((addr \div 2) * 2) % 65536
            bit16 == (addr \div 65536) % 2
        IN  /\ Issued(<<"sts", OCD_BP0A + 4 * slot, low, WIDTH_WORD>>)
            /\ Issued(<<"sts", OCD_BP0AT + 4 * slot, bit16, WIDTH_BYTE>>)
            /\ Peek(mem, OCD_BP0AT + 4 * slot) \in {0, 1}

-----------------------------------------------------------------------------
(* OcdRev1 called directly *)

\* A register window with the given TRAPEN bytes, CAUSE word and PC register.
Window(trapenl, trapenh, cause, pcreg) ==
    Poke(Poke(Poke(Poke(Poke(Poke(ZeroWindow,
        OCD_TRAPENL, trapenl), OCD_TRAPENH, trapenh),
        OCD_CAUSE, cause % 256), OCD_CAUSE + 1, cause \div 256),
        OCD_PC, pcreg % 256), OCD_PC + 1, pcreg \div 256)

\* A debugger attached to a target whose CPU runs or is stopped.
InitDbg ==
    /\ IdleServer
    /\ wire = <<>> /\ pendingpacket = <<>> /\ decoded = <<>> /\ ncalls = 0 /\ frames = <<>>
    /\ tampered = FALSE
    /\ IdleCalls
    /\ calls = <<>> /\ updi = <<>> /\ events = <<>> /\ link = -1
    /\ halted \in BOOLEAN
    /\ mem \in {Window(l, h, c, p) : l \in {0, 2, 6, 255}, h \in {0, 35},
                                      c \in {0, 4, 256}, p \in {0, 1, 293, 65535}}

\* What a call of a debugger method leaves behind.
CommitCall(t, method, args, val) ==
    /\ mem' = t.mem
    /\ halted' = t.halted
    /\ updi' = t.updi
    /\ calls' = t.calls
    /\ events' = t.events
    /\ link' = t.fuel
    /\ ret' = [method |-> method, args |-> args, val |-> val, raised |-> t.raised]
    /\ UNCHANGED <<wire, oob, sent, menu, eof, codecVars, serverVars, uart>>

\* The caller has taken the result; the record of the instructions issued
\* starts anew with the next call.
DbgReturn ==
    /\ ret.method # ""
    /\ ret' = NoCall
    /\ updi' = <<>> /\ calls' = <<>> /\ events' = <<>>
    /\ UNCHANGED <<wire, oob, sent, menu, eof, codecVars, serverVars, mem, halted, link, uart>>

\* step(); args: the TRAPEN bytes before the call.
Step ==
    /\ ret.method = ""
    /\ CommitCall(step(Machine(bps, mem, halted)), "step",
                  <<Peek(mem, OCD_TRAPENL), Peek(mem, OCD_TRAPENH)>>, <<>>)

\* is_halted(); val: 0 for a false value.
IsHalted ==
    /\ ret.method = ""
    /\ \E h \in {is_halted(Machine(bps, mem, halted))} : CommitCall(h.t, "is_halted", <<>>, h.val)

\* The counts given to poll_halted go up to this number.
MaxCount == 3
\* The target stops after at most this many evaluations of is_halted.
MaxAfter == 3

\* poll_halted(count=count) or poll_halted(); args: whether count is given,
\* count, whether and when the target stops, and whether is_halted was true
\* before the call.
PollHalted ==
    /\ ret.method = ""
    /\ \E bounded \in BOOLEAN, count \in 1..MaxCount, willhalt \in BOOLEAN, after \in 0..MaxAfter :
         \E r \in {poll_halted_n(Machine(bps, mem, halted), bounded, count, willhalt, after)} :
            CommitCall(r.t, "poll_halted",
                       <<bounded, count, willhalt, after, is_halted(Machine(bps, mem, halted)).val # 0>>,
                       r.val)

\* set_pc(get_pc()) on a stopped CPU, and get_pc() once more; args: the PC
\* register before the calls; val: what the two get_pc calls returned.
SetPcGetPc ==
    /\ ret.method = ""
    /\ halted
    /\ LET before == get_pc(Machine(bps, mem, halted))
           after == get_pc(set_pc(before.t, before.val))
       IN  CommitCall(after.t, "set_pc", <<Peek(mem, OCD_PC) + 256 * Peek(mem, OCD_PC + 1)>>,
                      <<before.val, after.val>>)

\* The starts and lengths the memory methods are called with: below, at and
\* above each end of the data space and of the code space, and lengths on
\* both sides of 1 and of 256.
DataStarts == {-1, 0, 3968, 65535, 65536}
CodeStarts == {-1, 0, 2097151, 2097152}
ReadLengths == {-1, 0, 1, 2, 255, 256, 257, 1000}

\* read_data(start, length); args: start, length; val: the bytes returned.
ReadData ==
    /\ ret.method = ""
    /\ \E start \in DataStarts, length \in ReadLengths :
         \E r \in {read_data(Machine(bps, mem, halted), start, length)} :
            CommitCall(r.t, "read_data", <<start, length>>, r.val)

\* read_code(start, length); args: start, length; val: the bytes returned.
ReadCode ==
    /\ ret.method = ""
    /\ \E start \in CodeStarts, length \in ReadLengths :
         \E r \in {read_code(Machine(bps, mem, halted), start, length)} :
            CommitCall(r.t, "read_code", <<start, length>>, r.val)

\* The lengths of the data given to write_data, and the data of length n.
WriteLengths == {0, 1, 2, 255, 256, 257}
DataOf(n) == [i \in 1..n |-> (i * 7) % 256]

\* write_data(start, data); args: start, len(data); val: the truth value
\* returned, if the call returned.
WriteData ==
    /\ ret.method = ""
    /\ \E start \in DataStarts, n \in WriteLengths :
         \E r \in {write_data(Machine(bps, mem, halted), start, DataOf(n))} :
            CommitCall(r.t, "write_data", <<start, n>>, r.val)

NextDbg ==
    Step \/ IsHalted \/ PollHalted \/ SetPcGetPc \/ ReadData \/ ReadCode \/ WriteData \/ DbgReturn

SpecDbg == InitDbg /\ [][NextDbg]_vars

\* C23: when step has returned, the TRAPEN low byte is what it was before the
\* call and the high byte was not written: the instructions issued are the
\* read of the low byte, the byte store of it with STEP set, one run, polls
\* of the halt state, and the byte store of the value read.
C23_TrapNeutral ==
    (ret.method = "step" /\ ret.raised = "") =>
        LET n == Len(updi)
        IN  /\ Peek(mem, OCD_TRAPENL) = ret.args[1]
            /\ Peek(mem, OCD_TRAPENH) = ret.args[2]
            /\ n >= 5
            /\ updi[1] = <<"lds", OCD_TRAPENL, 0, WIDTH_BYTE>>
            /\ updi[2] = <<"sts", OCD_TRAPENL, BitOr(ret.args[1], Traps.STEP), WIDTH_BYTE>>
            /\ updi[3] = <<"stcs", ASI_OCD_CTRLA, ASI_OCD_RUN, 0>>
            /\ \A i \in 4..(n - 1) : updi[i][1] \in {"ldcs", "lds"}
            /\ updi[n] = <<"sts", OCD_TRAPENL, ret.args[1], WIDTH_BYTE>>

\* A step was taken with the breakpoint traps enabled in the high byte and
\* STEP clear in the low byte.
C23_Witness ==
    /\ ret.method = "step" /\ ret.raised = ""
    /\ ret.args = <<2, 35>>
    /\ Peek(mem, OCD_TRAPENL) = 2 /\ Peek(mem, OCD_TRAPENH) = 35
    /\ halted

\* C27: on a stopped CPU get_pc returns the PC register minus one, and after
\* set_pc of that value (the store of it, truncated to 16 bits, and the one
\* step) get_pc returns the same word address again.
C27_PcRoundTrip ==
    (ret.method = "set_pc" /\ ret.raised = "") =>
        /\ ret.val[1] = ret.args[1] - 1
        /\ ret.val[2] = ret.val[1]
        /\ updi[2] = <<"sts", OCD_PC, ret.val[1] % 65536, WIDTH_WORD>>
        /\ Len(SelectSeq(updi, LAMBDA i : i = <<"stcs", ASI_OCD_CTRLA, ASI_OCD_RUN, 0>>)) = 1

\* The round trip was made with the PC register at 0x0125, the STEP trap off
\* and breakpoint traps on: both get_pc calls returned 0x0124.
C27_Witness ==
    /\ ret.method = "set_pc" /\ ret.raised = ""
    /\ ret.args = <<293>> /\ ret.val = <<292, 292>>
    /\ Peek(mem, OCD_TRAPENL) = 2 /\ Peek(mem, OCD_TRAPENH) = 35

\* The round trip was made with the PC register at zero: get_pc returned -1
\* before and after.
C27_WitnessZero ==
    /\ ret.method = "set_pc" /\ ret.raised = ""
    /\ ret.args = <<0>> /\ ret.val = <<-1, -1>>

\* C28: read_data(start, length) with 0 <= start < 0x10000 and length > 0
\* issues st ptr start, repeat and ld *ptr++ for min(length, 256) bytes and
\* returns these bytes; read_code does so at start + flash_offset for
\* 0 <= start < 0x200000; with any other start or length they return no byte
\* and issue no instruction.  No call returns more than 256 bytes.
C28_ReadClamped ==
    (ret.method \in {"read_data", "read_code"}) =>
        LET start == ret.args[1]
            length == ret.args[2]
            limit == IF ret.method = "read_data" THEN 65536 ELSE 2097152
            base == IF ret.method = "read_data" THEN 0 ELSE flash_offset
            n == Min(length, 256)
        IN  /\ ret.raised = ""
            /\ Len(ret.val) <= 256
            /\ IF 0 <= start /\ start < limit /\ length > 0
               THEN /\ updi = << <<"st_ptr", start + base, 0, 2>>, <<"repeat", n, 0, 0>>,
                                 <<"ld", n, 0, 0>> >>
                    /\ ret.val = PeekBurst(mem, start + base, n)
                    /\ Len(ret.val) = n
               ELSE updi = <<>> /\ ret.val = <<>>

\* read_data(0x0f80, 1000) has returned 256 bytes.
C28_Witness ==
    /\ ret.method = "read_data" /\ ret.args = <<3968, 1000>>
    /\ Len(ret.val) = 256
    /\ updi[2] = <<"repeat", 256, 0, 0>>

\* read_code(0x1fffff, 257) has returned 256 bytes read at 0x1fffff + flash_offset.
C28_WitnessCode ==
    /\ ret.method = "read_code" /\ ret.args = <<2097151, 257>>
    /\ Len(ret.val) = 256
    /\ updi[1] = <<"st_ptr", 2097151 + flash_offset, 0, 2>>

\* read_data(0x10000, 1) has returned nothing.
C28_WitnessOutside ==
    /\ ret.method = "read_data" /\ ret.args = <<65536, 1>>
    /\ ret.val = <<>> /\ updi = <<>>

\* What a write_data of n bytes at start has done when it stored them: the
\* call returned True after st ptr start, repeat(n) and one st *ptr++ of n
\* bytes, and the bytes are in place.
Stored(start, n) ==
    /\ ret.raised = "" /\ ret.val = TRUE
    /\ updi = << <<"st_ptr", start, 0, 2>>, <<"repeat", n, 0, 0>>, <<"st", n, 0, 0>> >>
    /\ \A i \in 1..n : (start + i - 1) \in OcdWindow => Peek(mem, start + i - 1) = DataOf(n)[i]

\* What a write_data has done when it refused: it returned False and issued
\* no instruction.
Refused ==
    ret.raised = "" /\ ret.val = FALSE /\ updi = <<>>

\* C29: write_data(start, data) with 0 <= start < 0x10000 and data of 1 to
\* 256 bytes, 256 included, stores all bytes with one burst store and returns
\* True; with any other start, with no data or with more than 256 bytes it
\* returns False and issues no instruction.
C29_WriteLengths ==
    (ret.method = "write_data") =>
        IF 0 <= ret.args[1] /\ ret.args[1] < 65536 /\ 1 <= ret.args[2] /\ ret.args[2] <= 256
        THEN Stored(ret.args[1], ret.args[2])
        ELSE Refused

\* C25: is_halted returns a true value exactly when bit 0 of ASI_OCD_STATUS
\* is set or the 16-bit CAUSE register is not zero.
C25_HaltedIff ==
    ret.method = "is_halted" => ((ret.val # 0) = (halted \/ Word(OCD_CAUSE) # 0))

\* The number of evaluations of is_halted made by the last call.
Evaluations == Len(SelectSeq(updi, LAMBDA c : c = <<"ldcs", ASI_OCD_STATUS, 0, 0>>))

\* C26: poll_halted(count=n), n >= 1, evaluates is_halted at most n times and
\* returns True exactly when one of those evaluations found the target
\* halted, False otherwise; poll_halted() returns only True, and only after
\* a halt was seen.
C26_BoundedPolling ==
    ret.method = "poll_halted" =>
        LET n == ret.args[2]
            seenby(k) == ret.args[5] \/ (ret.args[3] /\ ret.args[4] < k)
        IN  IF ret.args[1]
            THEN /\ ret.raised = ""
                 /\ 1 <= Evaluations /\ Evaluations <= n
                 /\ ret.val = seenby(n)
                 /\ ~ret.val => Evaluations = n
            ELSE /\ ret.raised \in {"", "hang"}
                 /\ ret.raised = "" => ret.val /\ seenby(Evaluations)

\* A running target did not stop: poll_halted(count=3) gave up after three evaluations.
C26_Witness ==
    /\ ret.method = "poll_halted"
    /\ ret.args = <<TRUE, 3, FALSE, 0, FALSE>>
    /\ ret.val = FALSE
    /\ Evaluations = 3
    /\ ~halted

\* The target stopped before the third evaluation of a poll without count.
C26_WitnessUnbounded ==
    /\ ret.method = "poll_halted"
    /\ ~ret.args[1] /\ ret.args[3] /\ ret.args[4] = 2 /\ ~ret.args[5]
    /\ ret.val = TRUE
    /\ Evaluations = 3

-----------------------------------------------------------------------------
(* One request of every kind *)

\* A request for every branch of handle_packet, the branches with arguments
\* taken with arguments in range and out of range.
KindRequests ==
    {qSupported, Str(<<"q","S","y","m","b","o","l",":",":">>), Str(<<"!">>), Str(<<"?">>),
     Str(<<"s">>), cPacket, Str(<<"g">>),
     GPacket(BytesHex(RegisterFile(70, 2, 0, 0))), GPacket(Str(<<"x","y">>)),
     mPacket(Str(<<"0",",","2">>)), mPacket(Str(<<"8","0","0","f","8","0",",","1">>)),
     mPacket(Str(<<"7","f","f","f","f","f",",","1">>)), mPacket(Str(<<"z","z">>)),
     MPacket(Str(<<"8","0","0","0","0","0",",","1",":","a","a">>)),
     MPacket(Str(<<"8","1","0","0","0","0",",","1",":","0","0">>)),
     MPacket(Str(<<"8","0","0","0","0","0",",","1">>)),
     Z1Packet(Str(<<"1","0","0">>)), Z1Packet(Str(<<"z","z">>)),
     z1Packet(Str(<<"1","0","0">>)), z1Packet(Str(<<"2","0","0">>)),
     Str(<<"Z","0",",","1","0","0",",","2">>), Str(<<"z","0",",","1","0","0",",","2">>),
     Str(<<"v","A","t","t","a","c","h",";","1">>),
     MonitorPacket(Str(<<"r","e","s","e","t">>)),
     MonitorPacket(Str(<<"i","n","t","t","r","a","p"," ","o","n">>)),
     MonitorPacket(Str(<<"h","e","l","p">>)),
     Str(<<"k">>), Str(<<"v","K","i","l","l",";","1">>), vRunPacket,
     Str(<<"R","0","0">>), Str(<<"r">>), Str(<<"T","1">>), Str(<<"H","g","0">>),
     Str(<<"D">>), Str(<<"X">>)}

\* A client that sends requests of every kind, one at a time.
InitKinds == InitServer(KindRequests, WindowWith(292))

NextKinds == ClientRequest \/ ServeRecv \/ Dispatch \/ CCheck \/ CRecv \/ TargetHalt

SpecKinds == InitKinds /\ [][NextKinds]_vars

\* The reply frames handle_packet has sent for the request dispatched last.
ReplyFrames == SelectSeq(sent, IsFrame)

\* C31: a dispatched request other than k, D and c is answered with exactly
\* one reply frame, whatever its kind and its arguments, an M request with an
\* address outside the data range included.
C31_OneReply ==
    (req # <<>> /\ Kind(req) \notin {"k", "D", "c"}) => Len(ReplyFrames) = 1

-----------------------------------------------------------------------------
(* The slot table and the breakpoint registers *)

\* Breakpoint addresses below 0x20000: even, odd, zero, the highest, and -1.
MirrorOperands ==
    {Str(<<"1","0","0">>), Str(<<"0">>), Str(<<"1","f","f","f","f">>), Str(<<"-","1">>)}

\* A client that sets and clears breakpoints, steps, writes the registers and
\* switches traps with monitor commands.
MirrorRequests ==
    {Z1Packet(a) : a \in MirrorOperands} \cup {z1Packet(a) : a \in MirrorOperands}
    \cup {Str(<<"s">>), GPacket(BytesHex(RegisterFile(70, 2, 0, 0))),
          MonitorPacket(Str(<<"i","n","t","t","r","a","p"," ","o","n">>)),
          MonitorPacket(Str(<<"i","n","t","t","r","a","p"," ","o","f","f">>)),
          MonitorPacket(Str(<<"u","n","k","1"," ","o","n">>)),
          MonitorPacket(Str(<<"u","n","k","1"," ","o","f","f">>))}

\* The target comes with breakpoint registers and a trap mask of its own,
\* which the prologue of serve replaces by the baseline.
InitMirror ==
    \E mem0 \in {ZeroWindow, [i \in 1..64 |-> IF i \in {9, 10} THEN 255 ELSE 0]} :
        InitServer(MirrorRequests, mem0)

NextMirror == ClientRequest \/ ServeRecv \/ Dispatch

SpecMirror == InitMirror /\ [][NextMirror]_vars

\* Slot i of the table (1 or 2) is occupied: the handlers take a negative
\* entry for an empty slot.
Occupied(i) == bps[i] >= 0

\* C32: slot i of the table is occupied iff the BPi enable bit of the TRAPEN
\* high byte is set, and the registers BPiA/BPiAT of an occupied slot hold
\* its address with bit 0 cleared.
C32_Mirror ==
    \A i \in 1..2 :
        /\ Occupied(i) <=> BitAnd(Peek(mem, OCD_TRAPENH), i) # 0
        /\ Occupied(i) => Armed(i, bps[i])

\* Both slots are occupied, the second with the odd address 0x1ffff, after
\* the interrupt trap was switched on and a step was taken.
C32_Witness ==
    /\ bps = <<256, 131071>>
    /\ Armed(1, 256) /\ Armed(2, 131071)
    /\ Peek(mem, OCD_BP1AT) = 1
    /\ BitAnd(Peek(mem, OCD_TRAPENH), 128) # 0
    /\ req = Str(<<"s">>)

\* A slot was emptied again: its enable bit is clear while the other is set.
C32_WitnessCleared ==
    /\ bps = <<-1, 131071>>
    /\ Kind(req) = "z1" /\ Replied(OK)
    /\ BitAnd(Peek(mem, OCD_TRAPENH), 3) = 2


\* C33: a Z1 for an address that is armed in one slot does not occupy the
\* other slot: the two slots never hold the same address, and after a z1
\* that was answered OK no slot holds the address it named.
C33_Idempotent ==
    /\ ~(Occupied(1) /\ Occupied(2) /\ bps[1] = bps[2])
    /\ (req # <<>> /\ Kind(req) = "z1" /\ BpAddr(req).ok /\ Replied(OK)) =>
           \A i \in 1..2 : ~(Occupied(i) /\ bps[i] = BpAddr(req).val)


-----------------------------------------------------------------------------
(* A break that follows a c packet *)

\* The server has just resumed the target for a c packet, and the recv of the
\* packet loop that delivered the packet also delivered a break byte sent
\* after it: intr was set by that recv and the continue loop has not yet
\* received anything.
BreakFollowsCont ==
    /\ pc = "c_check" /\ req = cPacket /\ ~halted
    /\ intr /\ lastbreak

\* C34: a break byte that follows a c packet is not lost: while the target
\* runs after the resume, the break is still to be received by the continue
\* loop, which answers it with a halt and S02, also when packet and break
\* came in the same recv.
C34_InterruptKept == BreakFollowsCont => Contains(wire, ETX)


-----------------------------------------------------------------------------
(* Reads at the end of a region *)

\* Reads that end before, at and past the end of the data space and of the
\* code space, and reads that start outside.
EdgeOperands ==
    {Str(<<"8","0","f","f","f","0",",","f">>), Str(<<"8","0","f","f","f","0",",","1","0">>),
     Str(<<"8","0","f","f","f","0",",","1","1">>), Str(<<"8","0","f","f","f","f",",","1">>),
     Str(<<"8","0","f","f","f","f",",","2">>), Str(<<"8","1","0","0","0","0",",","1">>),
     Str(<<"1","f","f","f","f","0",",","1","0">>), Str(<<"1","f","f","f","f","f",",","1">>),
     Str(<<"1","f","f","f","f","f",",","2">>), Str(<<"2","0","0","0","0","0",",","1">>),
     Str(<<"0",",","2">>), Str(<<"8","0","0","0","0","0",",","2">>)}

\* A client that reads memory up to the ends of the regions.
InitEdge == InitServer({mPacket(o) : o \in EdgeOperands}, ZeroWindow)

NextEdge == ClientRequest \/ ServeRecv \/ Dispatch

SpecEdge == InitEdge /\ [][NextEdge]_vars

\* The first and the last address the target was made to read for the request
\* dispatched last: the pointer set by st ptr and the length of the burst.
FirstRead == updi[1][2]
LastRead == updi[1][2] + updi[3][2] - 1

\* C35: an m request served by read_data reads target addresses in
\* [0, 0x10000) only, and one served by read_code reads client addresses in
\* [0, 0x200000) only: a read that starts near the end of a region does not
\* run past it.
C35_ReadsConfined ==
    (req # <<>> /\ Kind(req) = "m" /\ updi # <<>>) =>
        /\ updi[1][1] = "st_ptr" /\ updi[3][1] = "ld"
        /\ calls[1][1] = "read_data" => (0 <= FirstRead /\ LastRead < 65536)
        /\ calls[1][1] = "read_code" =>
               (0 <= FirstRead - flash_offset /\ LastRead - flash_offset < 2097152)

=============================================================================
